---- MODULE Spec2Model ----
(***************************************************************************)
(* A model of the OS abstraction layer of HotSpot (share/runtime/os.cpp):  *)
(* the native heap facade os::malloc / os::realloc / os::free on top of    *)
(* the NMT malloc ledger, the random number generator os::random, the page *)
(* size registry os::PageSizes, the signal dispatch thread, the virtual    *)
(* memory manager and os::pretouch_memory.                                 *)
(***************************************************************************)
EXTENDS Integers, Sequences, FiniteSets, TLC

(***************************************************************************)
(* Bounds of the model.                                                    *)
(***************************************************************************)
\* number of blocks the platform allocator can hand out
NumBlocks == 2
\* width of size_t in the model (the code's size_t is 64 bits wide)
SizeBits == 6
\* the MallocLimit ceiling (bytes per category) used when a limit is set
MallocLimitBytes == 3
\* number of calls of the heap facade in one run
MaxCalls == 3
\* threads calling os::random, and the calls each of them makes
NumThreads == 2
CallsPerThread == 2
\* how often next_random is fed its own result, from each sampled seed
MaxFeed == 3
\* width of size_t in the page size registry (the code's size_t is 64 bits wide)
PageBits == 5
\* largest min_pages passed to page_size_for_region
MaxMinPages == 3
\* signals raised in one run, the exit notification not counted
MaxSignals == 3
\* addresses the virtual memory calls work on, and the calls of one run
NumRegions == 2
MaxVmCalls == 2
\* width of a pointer in the pretouch model (the code's pointers are 64 bits wide)
AddrBits == 5

\* pages of the address space the readability probes work on
ProbePages == 4

\* native priority values a platform's java_to_os_priority table draws from
NativeLevels == 3

\* longest path handed to os::split_path
MaxPathChars == 4

\* pages a racing pretouch goes over, and the stores of the other threads
RacePages == 2
MaxStores == 3

\* threads reserving and releasing concurrently, the regions the platform
\* hands out to them, and the calls they make in one run
NumVmThreads == 2
NumVmRegions == 2
MaxRaceCalls == 4

\* largest nBytes passed to os::write
MaxWriteBytes == 8

(***************************************************************************)
(* Native heap: state.                                                     *)
(***************************************************************************)
VARIABLES
  enabled,      \* MemTracker::enabled(): NMT is on (fixed after pre-init)
  debugBuild,   \* the build defines ASSERT (assert and DEBUG_ONLY are compiled in)
  mallocLimit,  \* MallocLimit per category, 0 = no limit
  heap,         \* block -> is the block allocated at the platform allocator
  hdr,          \* block -> the bytes of the malloc header at its start
  acct,         \* flags -> [count, size]: the ledger's accounting summary
  nfatal,       \* number of times the fatal (corruption / assert) path was entered
  ub,           \* the platform allocator was used against its contract
  owned,        \* pointers returned to the caller and not since given back
  known,        \* pointers ever returned to the caller (owned or stale)
  freed,        \* pointers passed to os::free, their block not handed out since
  tampered,     \* some live block's header was overwritten by a heap overrun
  ncalls,       \* calls made so far
  last          \* the last call: arguments, result, platform calls made

heapVars == <<enabled, debugBuild, mallocLimit, heap, hdr, acct, nfatal, ub,
              owned, known, freed, tampered, ncalls, last>>


Blocks == 1..NumBlocks
SizeMod == 2 ^ SizeBits
SizeMax == SizeMod - 1
Sizes == {0, 1, 2, SizeMax}
Flags == {"mtInternal", "mtThread"}

\* a pointer is <<block, offset>>; the null pointer
Nullptr == <<0, 0>>
OuterPtr(b) == <<b, 0>>

\* sizeof(MallocHeader), and the header plus the footer
MallocHeaderSize == 16
MallocOverhead == 18

MAX2(a, b) == IF a > b THEN a ELSE b

NoHeader == [kind |-> "none", size |-> 0, flags |-> "mtNone"]
NoAcct == [count |-> 0, size |-> 0]

\* the state the facade and the ledger work on
Cur == [heap |-> heap, hdr |-> hdr, acct |-> acct]

\* what a call hands back: the new state, the value returned, whether it
\* ended in fatal(), whether libc was misused, the libc calls made (in
\* order) and the header operations performed
Outcome(s, ret, fatal, isub, pcalls, hops) ==
  [heap |-> s.heap, hdr |-> s.hdr, acct |-> s.acct, ret |-> ret,
   fatal |-> fatal, ub |-> isub, pcalls |-> pcalls, hops |-> hops]

PCall(fn, ptr, n, res) == [fn |-> fn, ptr |-> ptr, n |-> n, res |-> res]

(***************************************************************************)
(* The ledger (MemTracker / MallocTracker / MallocHeader).                 *)
(***************************************************************************)
overhead_per_malloc == IF enabled THEN MallocOverhead ELSE 0

check_exceeds_limit(s, size, memflags) ==
  /\ enabled
  /\ mallocLimit > 0
  /\ s.acct[memflags].size + size > mallocLimit

\* the header a user pointer belongs to
malloc_header(p) == p[1]

\* MallocHeader::resolve_checked: the header passes the integrity checks
header_is_valid(s, p) ==
  /\ p[2] = MallocHeaderSize
  /\ s.hdr[malloc_header(p)].kind = "live"

mark_block_as_dead(s, b) == [s EXCEPT !.hdr[b].kind = "dead"]

revive(s, b) == [s EXCEPT !.hdr[b].kind = "live"]

\* MemTracker::deaccount(free_info)
deaccount(s, free_info) ==
  [s EXCEPT !.acct[free_info.flags] =
     [count |-> @.count - 1, size |-> @.size - free_info.size]]

\* MemTracker::record_malloc: [s, ptr, hops]
record_malloc(s, outer_ptr, size, memflags) ==
  IF enabled
    THEN [s |-> [s EXCEPT
                   !.hdr[outer_ptr[1]] =
                      [kind |-> "live", size |-> size, flags |-> memflags],
                   !.acct[memflags] =
                      [count |-> @.count + 1, size |-> @.size + size]],
          ptr |-> <<outer_ptr[1], MallocHeaderSize>>,
          hops |-> {"write"}]
    ELSE [s |-> s, ptr |-> outer_ptr, hops |-> {}]

\* MemTracker::record_free: [s, outer, fatal, hops]
record_free(s, p) ==
  IF ~enabled
    THEN [s |-> s, outer |-> p, fatal |-> FALSE, hops |-> {}]
    ELSE IF ~header_is_valid(s, p)
      THEN [s |-> s, outer |-> p, fatal |-> TRUE, hops |-> {"read"}]
      ELSE LET b == malloc_header(p)
               free_info == [size |-> s.hdr[b].size, flags |-> s.hdr[b].flags]
           IN [s |-> mark_block_as_dead(deaccount(s, free_info), b),
               outer |-> OuterPtr(b), fatal |-> FALSE,
               hops |-> {"read", "dead"}]

(***************************************************************************)
(* The platform allocator (libc).  Its answer to a request is an input of  *)
(* the call; the memory of a freed block is indeterminate afterwards.      *)
(***************************************************************************)
IsAllocated(s, outer) ==
  /\ outer[1] \in Blocks
  /\ outer[2] = 0
  /\ s.heap[outer[1]]

FreeBlocks(s) == {b \in Blocks : ~s.heap[b]}

\* Blocks never handed out are interchangeable: of those the allocator is
\* taken to hand out the lowest; a block freed before can be handed out again.
FreshBlocks(s) == {b \in FreeBlocks(s) : \A p \in known : p[1] # b}

Candidates(s) ==
  (FreeBlocks(s) \ FreshBlocks(s)) \cup
  {b \in FreshBlocks(s) : \A c \in FreshBlocks(s) : b <= c}

\* the answers ::malloc can give
MallocChoices(s) == {Nullptr} \cup {OuterPtr(b) : b \in Candidates(s)}

\* the answers ::realloc(old, n) can give: failure, in place, or moved
ReallocChoices(s, old) ==
  {Nullptr} \cup {OuterPtr(b) : b \in Candidates(s)}
            \cup (IF IsAllocated(s, old) THEN {old} ELSE {})

Clobber(h) == IF h.kind = "none" THEN h ELSE [h EXCEPT !.kind = "corrupt"]

platform_malloc(s, res) ==
  IF res = Nullptr THEN s ELSE [s EXCEPT !.heap[res[1]] = TRUE]

platform_free(s, outer, clob) ==
  [s EXCEPT !.heap[outer[1]] = FALSE,
            !.hdr[outer[1]] = IF clob THEN Clobber(@) ELSE @]

platform_realloc(s, old, res, clob) ==
  IF res = Nullptr \/ res = old
    THEN s
    ELSE [s EXCEPT !.heap[old[1]] = FALSE,
                   !.heap[res[1]] = TRUE,
                   !.hdr[res[1]] = s.hdr[old[1]],
                   !.hdr[old[1]] = IF clob THEN Clobber(@) ELSE @]

(***************************************************************************)
(* os::malloc                                                              *)
(***************************************************************************)
\* a facade that passes a zero size on to the platform
normalized_size_unchanged(size) == size

normalized_size(size) == MAX2(1, size)

\* if (outer_size < size): the addition wrapped around
\* (outer_size_wrapped_unchecked: a facade without the overflow check)
outer_size_wrapped_unchecked(size, outer_size) == FALSE

outer_size_wrapped(size, outer_size) == outer_size < size

outer_size_of(size) == (size + overhead_per_malloc) % SizeMod

os_malloc(s, size0, memflags, plat) ==
  LET size == normalized_size(size0)
      outer_size == outer_size_of(size)
  IN IF check_exceeds_limit(s, size, memflags)
       THEN Outcome(s, Nullptr, FALSE, FALSE, <<>>, {})
     ELSE IF outer_size_wrapped(size, outer_size)
       THEN Outcome(s, Nullptr, FALSE, FALSE, <<>>, {})
     ELSE LET pc == <<PCall("malloc", Nullptr, outer_size, plat)>>
          IN IF plat = Nullptr
               THEN Outcome(s, Nullptr, FALSE, FALSE, pc, {})
               ELSE LET r == record_malloc(platform_malloc(s, plat), plat,
                                           size, memflags)
                    IN Outcome(r.s, r.ptr, FALSE, FALSE, pc, r.hops)

(***************************************************************************)
(* os::free                                                                *)
(***************************************************************************)
\* a free that hands the block to the platform without telling the ledger
os_free_unrecorded(s, memblock, clob) ==
  IF memblock = Nullptr
    THEN Outcome(s, Nullptr, FALSE, FALSE, <<>>, {})
    ELSE LET outer == OuterPtr(memblock[1])
             pc == <<PCall("free", outer, 0, Nullptr)>>
         IN IF ~IsAllocated(s, outer)
              THEN Outcome(s, Nullptr, FALSE, TRUE, pc, {})
              ELSE Outcome(platform_free(s, outer, clob), Nullptr, FALSE,
                           FALSE, pc, {})

os_free(s, memblock, clob) ==
  IF memblock = Nullptr
    THEN Outcome(s, Nullptr, FALSE, FALSE, <<>>, {})
    ELSE LET rf == record_free(s, memblock)
             pc == <<PCall("free", rf.outer, 0, Nullptr)>>
         IN IF rf.fatal
              THEN Outcome(s, Nullptr, TRUE, FALSE, <<>>, rf.hops)
            ELSE IF ~IsAllocated(rf.s, rf.outer)
              THEN Outcome(rf.s, Nullptr, FALSE, TRUE, pc, rf.hops)
            ELSE Outcome(platform_free(rf.s, rf.outer, clob), Nullptr,
                         FALSE, FALSE, pc, rf.hops)

(***************************************************************************)
(* os::realloc                                                             *)
(***************************************************************************)
\* a realloc whose flags assertion never fires
flags_assert_never_fails(s, b, memflags) == FALSE

\* assert(memflags == header->flags(), ...): compiled in debug builds only
flags_assert_fails(s, b, memflags) ==
  debugBuild /\ memflags # s.hdr[b].flags

\* a realloc that forgets to undo the dead mark when realloc(3) fails
realloc_failed_keeps_dead(s, b) == s

\* realloc(3) failed and the block still exists: undo the dead mark
realloc_failed(s, b) == revive(s, b)

\* a tracked realloc that does not check the old header before it goes on
realloc_tracked_unchecked(s, memblock, size, memflags, plat, clob) ==
  LET b == malloc_header(memblock)
      header == OuterPtr(b)
      free_info == [size |-> s.hdr[b].size, flags |-> s.hdr[b].flags]
      s1 == mark_block_as_dead(s, b)
      pc == <<PCall("realloc", header, outer_size_of(size), plat)>>
  IN IF ~IsAllocated(s1, header)
       THEN Outcome(s1, Nullptr, FALSE, TRUE, pc, {"dead"})
     ELSE IF plat = Nullptr
       THEN Outcome(revive(s1, b), Nullptr, FALSE, FALSE, pc,
                    {"dead", "revive"})
     ELSE LET s2 == platform_realloc(s1, header, plat, clob)
              r == record_malloc(deaccount(s2, free_info), plat, size,
                                 memflags)
          IN Outcome(r.s, r.ptr, FALSE, FALSE, pc, {"dead"} \cup r.hops)

\* the tracked branch has passed the overflow and the limit check
realloc_tracked(s, memblock, size, memflags, plat, clob) ==
  LET b == malloc_header(memblock)
      header == OuterPtr(b)
      new_outer_size == outer_size_of(size)
      free_info == [size |-> s.hdr[b].size, flags |-> s.hdr[b].flags]
      s1 == mark_block_as_dead(s, b)
      pc == <<PCall("realloc", header, new_outer_size, plat)>>
  IN IF ~header_is_valid(s, memblock)
       THEN Outcome(s, Nullptr, TRUE, FALSE, <<>>, {"read"})
     ELSE IF flags_assert_fails(s, b, memflags)
       THEN Outcome(s, Nullptr, TRUE, FALSE, <<>>, {"read"})
     ELSE IF ~IsAllocated(s1, header)
       THEN Outcome(s1, Nullptr, FALSE, TRUE, pc, {"read", "dead"})
     ELSE IF plat = Nullptr
       THEN Outcome(realloc_failed(s1, b), Nullptr, FALSE, FALSE, pc,
                    {"read", "dead", "revive"})
     ELSE LET s2 == platform_realloc(s1, header, plat, clob)
              r == record_malloc(deaccount(s2, free_info), plat, size,
                                 memflags)
          IN Outcome(r.s, r.ptr, FALSE, FALSE, pc,
                     {"read", "dead"} \cup r.hops)

\* an untracked realloc that asks for the tracking overhead all the same
realloc_untracked_with_overhead(s, memblock, size, plat, clob) ==
  LET pc == <<PCall("realloc", memblock, (size + MallocOverhead) % SizeMod,
                    plat)>>
  IN IF ~IsAllocated(s, memblock)
       THEN Outcome(s, Nullptr, FALSE, TRUE, pc, {})
       ELSE Outcome(platform_realloc(s, memblock, plat, clob), plat,
                    FALSE, FALSE, pc, {})

\* NMT disabled: the real realloc
realloc_untracked(s, memblock, size, plat, clob) ==
  LET pc == <<PCall("realloc", memblock, size, plat)>>
  IN IF ~IsAllocated(s, memblock)
       THEN Outcome(s, Nullptr, FALSE, TRUE, pc, {})
       ELSE Outcome(platform_realloc(s, memblock, plat, clob), plat,
                    FALSE, FALSE, pc, {})

os_realloc(s, memblock, size0, memflags, plat, clob) ==
  IF memblock = Nullptr
    THEN os_malloc(s, size0, memflags, plat)
    ELSE LET size == normalized_size(size0)
             old_size == s.hdr[malloc_header(memblock)].size
         IN IF enabled
              THEN IF outer_size_wrapped(size, outer_size_of(size))
                     THEN Outcome(s, Nullptr, FALSE, FALSE, <<>>, {})
                   ELSE IF /\ size > old_size
                           /\ check_exceeds_limit(s, size - old_size, memflags)
                     THEN Outcome(s, Nullptr, FALSE, FALSE, <<>>, {"read"})
                   ELSE realloc_tracked(s, memblock, size, memflags, plat,
                                        clob)
              ELSE realloc_untracked(s, memblock, size, plat, clob)

(***************************************************************************)
(* The callers.  Every call is one step; after fatal() or a misuse of the  *)
(* platform allocator the process is gone.                                 *)
(***************************************************************************)
halted == nfatal > 0 \/ ub \/ ncalls >= MaxCalls

Apply(op, p, size, memflags, o) ==
  /\ heap' = o.heap
  /\ hdr' = o.hdr
  /\ acct' = o.acct
  /\ nfatal' = IF o.fatal THEN nfatal + 1 ELSE nfatal
  /\ ub' = o.ub
  /\ owned' = IF o.fatal \/ o.ub THEN owned
              ELSE IF op = "free" THEN owned \ {p}
              ELSE IF o.ret = Nullptr THEN owned
              ELSE (owned \ {p}) \cup {o.ret}
  /\ known' = IF o.ret = Nullptr THEN known ELSE known \cup {o.ret}
  /\ freed' = IF o.fatal \/ o.ub THEN freed
              ELSE IF op = "free" THEN freed \cup ({p} \ {Nullptr})
              ELSE {q \in freed : q[1] # o.ret[1]}
  /\ last' = [op |-> op, p |-> p, size |-> size, flags |-> memflags,
              ret |-> o.ret, fatal |-> o.fatal, pcalls |-> o.pcalls,
              hops |-> o.hops,
              reused |-> o.ret # Nullptr /\ o.ret # p /\ o.ret \in known]
  /\ ncalls' = ncalls + 1
  /\ UNCHANGED <<enabled, debugBuild, mallocLimit, tampered>>

\* the block a pointer of the caller lies in, as the platform knows it
OuterOf(p) == IF enabled THEN OuterPtr(p[1]) ELSE p

\* the memory of a block given back to the platform may be overwritten
ClobberChoices == IF enabled THEN BOOLEAN ELSE {FALSE}

ReallocInputs(p) ==
  IF p = Nullptr
    THEN {<<plat, FALSE>> : plat \in MallocChoices(Cur)}
    ELSE {<<plat, clob>> \in
            ReallocChoices(Cur, OuterOf(p)) \X ClobberChoices :
              clob => (plat # Nullptr /\ plat # OuterOf(p))}

Malloc ==
  /\ ~halted
  /\ \E size \in Sizes, memflags \in Flags, plat \in MallocChoices(Cur) :
       Apply("malloc", Nullptr, size, memflags,
             os_malloc(Cur, size, memflags, plat))

Realloc ==
  /\ ~halted
  /\ \E p \in known \cup {Nullptr}, size \in Sizes, memflags \in Flags :
       \E in \in ReallocInputs(p) :
         Apply("realloc", p, size, memflags,
               os_realloc(Cur, p, size, memflags, in[1], in[2]))

Free ==
  /\ ~halted
  /\ \E p \in known \cup {Nullptr}, clob \in ClobberChoices :
       Apply("free", p, 0, "mtNone", os_free(Cur, p, clob))

\* a heap overrun of some other code overwrites the header of a live block
Tamper ==
  /\ ~halted
  /\ enabled
  /\ \E p \in owned :
       /\ hdr[p[1]].kind = "live"
       /\ hdr' = [hdr EXCEPT ![p[1]].kind = "corrupt"]
       /\ tampered' = TRUE
       /\ last' = [op |-> "tamper", p |-> p, size |-> 0, flags |-> "mtNone",
                   ret |-> Nullptr, fatal |-> FALSE, pcalls |-> <<>>,
                   hops |-> {}, reused |-> FALSE]
  /\ ncalls' = ncalls + 1
  /\ UNCHANGED <<enabled, debugBuild, mallocLimit, heap, acct, nfatal, ub,
                 owned, known, freed>>

NoCall == [op |-> "none", p |-> Nullptr, size |-> 0, flags |-> "mtNone",
           ret |-> Nullptr, fatal |-> FALSE, pcalls |-> <<>>, hops |-> {},
           reused |-> FALSE]

HeapInit ==
  /\ enabled \in BOOLEAN
  /\ debugBuild \in BOOLEAN
  /\ mallocLimit \in IF enabled THEN {0, MallocLimitBytes} ELSE {0}
  /\ heap = [b \in Blocks |-> FALSE]
  /\ hdr = [b \in Blocks |-> NoHeader]
  /\ acct = [f \in Flags |-> NoAcct]
  /\ nfatal = 0
  /\ ub = FALSE
  /\ owned = {}
  /\ known = {}
  /\ freed = {}
  /\ tampered = FALSE
  /\ ncalls = 0
  /\ last = NoCall

(***************************************************************************)
(* os::next_random and os::random                                          *)
(***************************************************************************)
VARIABLES
  rand_seed,    \* os::_rand_seed, the seed shared by all threads
  seed0,        \* the seed the run started from
  tpc,          \* thread -> where it is in os::random
  tseed,        \* thread -> the local seed
  trand,        \* thread -> the local rand
  tcalls,       \* thread -> calls of os::random completed
  returned,     \* the values returned so far, in the order of the updates
  retries,      \* times a cmpxchg found another value than the one read
  tread,        \* thread -> the number of updates made before its read
  arg,          \* next_random on its own: the seed passed
  res,          \* next_random on its own: the result, -1 before the call
  feeds         \* next_random on its own: results fed back so far

randVars == <<rand_seed, seed0, tpc, tseed, trand, tcalls, returned, retries,
              tread>>
nextRandomVars == <<arg, res, feeds>>

Threads == 1..NumThreads

\* const unsigned int a = 16807; const unsigned int m = 2147483647;
rand_a == 16807
rand_m == 2147483647
DefaultSeed == 1234567

\* x + y for x, y < 2^31 as a 32-bit unsigned value top * 2^31 + low
U32Add(x, y) ==
  IF x > rand_m - y
    THEN [top |-> 1, low |-> (x - (rand_m - y)) - 1]
    ELSE [top |-> 0, low |-> x + y]

\* unsigned int lo = a * (rand_seed & 0xFFFF)
rand_lo(rand_seed_) == rand_a * (rand_seed_ % 65536)

\* unsigned int hi = a * (rand_seed >> 16)
rand_hi(rand_seed_) == rand_a * (rand_seed_ \div 65536)

\* a fold that masks the overflow bit off and forgets the increment
fold_overflow_no_increment(lo) == lo.low

\* if (lo > m) { lo &= m; ++lo; }
fold_overflow(lo) == IF lo.top = 1 THEN lo.low + 1 ELSE lo.low

next_random(rand_seed_) ==
  LET lo0 == rand_lo(rand_seed_)
      hi == rand_hi(rand_seed_)
      lo1 == fold_overflow(U32Add(lo0, (hi % 32768) * 65536))
      lo2 == fold_overflow(U32Add(lo1, hi \div 32768))
  IN lo2

\* an update of the seed by a plain store
cmpxchg_succeeds_always(t) == TRUE

cmpxchg_succeeds_never(t) == FALSE

\* Atomic::cmpxchg(&_rand_seed, seed, rand) == seed
cmpxchg_succeeds(t) == rand_seed = tseed[t]

\* unsigned int seed = _rand_seed; unsigned int rand = next_random(seed);
RandomRead(t) ==
  /\ tpc[t] = "read"
  /\ tcalls[t] < CallsPerThread
  /\ tseed' = [tseed EXCEPT ![t] = rand_seed]
  /\ trand' = [trand EXCEPT ![t] = next_random(rand_seed)]
  /\ tpc' = [tpc EXCEPT ![t] = "cas"]
  /\ tread' = [tread EXCEPT ![t] = Len(returned)]
  /\ UNCHANGED <<rand_seed, seed0, tcalls, returned, retries>>

\* the cmpxchg stores rand and the call returns it
RandomCasReturn(t) ==
  /\ tpc[t] = "cas"
  /\ cmpxchg_succeeds(t)
  /\ rand_seed' = trand[t]
  /\ returned' = Append(returned, [thread |-> t, value |-> trand[t]])
  /\ tcalls' = [tcalls EXCEPT ![t] = @ + 1]
  /\ tpc' = [tpc EXCEPT ![t] = "read"]
  /\ UNCHANGED <<seed0, tseed, trand, retries, tread>>

\* the cmpxchg finds another value and the loop goes round
RandomCasRetry(t) ==
  /\ tpc[t] = "cas"
  /\ ~cmpxchg_succeeds(t)
  /\ tpc' = [tpc EXCEPT ![t] = "read"]
  /\ retries' = retries + 1
  /\ UNCHANGED <<rand_seed, seed0, tseed, trand, tcalls, returned, tread>>

\* the seeds next_random is tried on
SeedSamples ==
  {1, 2, 3, 16806, 16807, 16808, 32767, 32768, 65535, 65536, 65537,
   127772, 127773, 127774, 131071, 131072, DefaultSeed, 2147418111,
   2147418112, 2147483645, 2147483646, 1073741823, 1073741824, 1431655765,
   715827882, 2147450879, 2147450880, 1288490188, 858993459, 2004318071,
   305419896, 19088743, 1985229328, 4660, 22136, 43981, 314159265,
   271828182, 1000000007, 999999937, 2147483399, 2147483563, 48271, 69621,
   630360016, 1626500811, 1791398085, 1078318381, 1593075868, 1482168758}

RandInit ==
  /\ seed0 \in {DefaultSeed, 1, rand_m - 1}
  /\ rand_seed = seed0
  /\ tpc = [t \in Threads |-> "read"]
  /\ tseed = [t \in Threads |-> 0]
  /\ trand = [t \in Threads |-> 0]
  /\ tcalls = [t \in Threads |-> 0]
  /\ returned = <<>>
  /\ retries = 0
  /\ tread = [t \in Threads |-> 0]

\* os::random is not in use
RandIdle ==
  /\ seed0 = DefaultSeed
  /\ rand_seed = seed0
  /\ tpc = [t \in Threads |-> "read"]
  /\ tseed = [t \in Threads |-> 0]
  /\ trand = [t \in Threads |-> 0]
  /\ tcalls = [t \in Threads |-> 0]
  /\ returned = <<>>
  /\ retries = 0
  /\ tread = [t \in Threads |-> 0]

NextRandomInit ==
  /\ arg \in SeedSamples
  /\ res = -1
  /\ feeds = 0

NextRandomIdle ==
  /\ arg = DefaultSeed
  /\ res = -1
  /\ feeds = 0

\* a call of next_random(arg)
NextRandomCall ==
  /\ res = -1
  /\ res' = next_random(arg)
  /\ UNCHANGED <<arg, feeds>>

\* the result becomes the next seed, as in os::random
NextRandomFeed ==
  /\ res # -1
  /\ feeds < MaxFeed
  /\ arg' = res
  /\ res' = -1
  /\ feeds' = feeds + 1

(***************************************************************************)
(* The page size registry os::PageSizes and os::page_size_for_region.      *)
(***************************************************************************)
VARIABLES
  page_sizes,     \* os::_page_sizes._v, the bit mask of the registered sizes
  registered,     \* the sizes passed to PageSizes::add so far
  vm_page_size,   \* os::vm_page_size(), the base page size of the OS
  UseLargePages,  \* the flag UseLargePages
  pq              \* the last query of the registry: arguments and result

pageVars == <<page_sizes, registered, vm_page_size, UseLargePages, pq>>

\* size_t of the registry: values 0 .. PageMod - 1
PageMod == 2 ^ PageBits
\* max_power_of_2<size_t>()
max_power_of_2 == 2 ^ (PageBits - 1)
PowersOfTwo == {2 ^ k : k \in 0..(PageBits - 1)}

is_power_of_2(x) == x \in PowersOfTwo

\* a & b on size_t
RECURSIVE BitAnd(_, _)
BitAnd(a, b) ==
  IF a = 0 \/ b = 0 THEN 0
  ELSE (a % 2) * (b % 2) + 2 * BitAnd(a \div 2, b \div 2)

\* ~a on size_t
BitNot(a) == (PageMod - 1) - a

\* a | b on size_t
BitOr(a, b) == a + b - BitAnd(a, b)

\* the largest power of two <= value, for value > 0
RECURSIVE round_down_power_of_2(_)
round_down_power_of_2(value) ==
  IF value = 1 THEN 1 ELSE 2 * round_down_power_of_2(value \div 2)

\* the number of zero bits below the lowest bit set, for x > 0
RECURSIVE count_trailing_zeros(_)
count_trailing_zeros(x) ==
  IF x % 2 = 1 THEN 0 ELSE 1 + count_trailing_zeros(x \div 2)

is_aligned(size, alignment) == BitAnd(size, alignment - 1) = 0

\* void os::PageSizes::add(size_t page_size): _v |= page_size
add(v, page_size) == BitOr(v, page_size)

\* bool os::PageSizes::contains(size_t page_size) const
contains(v, page_size) == BitAnd(v, page_size) # 0

\* size_t os::PageSizes::next_smaller(size_t page_size) const
next_smaller(v, page_size) ==
  LET v2 == BitAnd(v, page_size - 1)
  IN  IF v2 = 0 THEN 0 ELSE round_down_power_of_2(v2)

\* the mask "current and smaller page sizes" of next_larger
current_and_smaller_keeps_current(page_size) == page_size - 1

current_and_smaller(page_size) == page_size + (page_size - 1)

\* size_t os::PageSizes::next_larger(size_t page_size) const
next_larger(v, page_size) ==
  IF page_size = max_power_of_2 THEN 0
  ELSE LET v2 == BitAnd(v, BitNot(current_and_smaller(page_size)))
       IN  IF v2 = 0 THEN 0 ELSE 2 ^ count_trailing_zeros(v2)

\* size_t os::PageSizes::largest() const
largest(v) ==
  IF contains(v, max_power_of_2) THEN max_power_of_2
  ELSE next_smaller(v, max_power_of_2)

\* size_t os::PageSizes::smallest() const
smallest(v) == next_larger(v, 1)

\* the condition under which the walk of page_size_for_region returns page_size
region_fits_unaligned(page_size, max_page_size, region_size, must_be_aligned) ==
  page_size <= max_page_size

region_fits(page_size, max_page_size, region_size, must_be_aligned) ==
  /\ page_size <= max_page_size
  /\ (~must_be_aligned \/ is_aligned(region_size, page_size))

\* the loop of page_size_for_region from page_size downwards; 0: fell through
RECURSIVE region_walk(_, _, _, _, _)
region_walk(v, page_size, max_page_size, region_size, must_be_aligned) ==
  IF page_size = 0 THEN 0
  ELSE IF region_fits(page_size, max_page_size, region_size, must_be_aligned)
       THEN page_size
       ELSE region_walk(v, next_smaller(v, page_size), max_page_size,
                        region_size, must_be_aligned)

\* size_t os::page_size_for_region(region_size, min_pages, must_be_aligned)
page_size_for_region(v, region_size, min_pages, must_be_aligned) ==
  LET found == IF UseLargePages
               THEN region_walk(v, largest(v), region_size \div min_pages,
                                region_size, must_be_aligned)
               ELSE 0
  IN  IF found # 0 THEN found ELSE vm_page_size

NoQuery == [op |-> "none", p |-> 0, region |-> 0, min_pages |-> 1,
            aligned |-> FALSE, ret |-> 0]

Query(op, p, ret) == [NoQuery EXCEPT !.op = op, !.p = p, !.ret = ret]

\* the registry is filled during initialisation, before it is queried; it
\* does not change afterwards, so a run makes one query of the final registry
PageAdd ==
  /\ pq = NoQuery
  /\ \E p \in PowersOfTwo :
       /\ page_sizes' = add(page_sizes, p)
       /\ registered' = registered \cup {p}
  /\ UNCHANGED <<vm_page_size, UseLargePages, pq>>

PageContains ==
  /\ pq = NoQuery
  /\ \E p \in PowersOfTwo :
       pq' = Query("contains", p, IF contains(page_sizes, p) THEN 1 ELSE 0)
  /\ UNCHANGED <<page_sizes, registered, vm_page_size, UseLargePages>>

PageNextSmaller ==
  /\ pq = NoQuery
  /\ \E p \in PowersOfTwo :
       pq' = Query("next_smaller", p, next_smaller(page_sizes, p))
  /\ UNCHANGED <<page_sizes, registered, vm_page_size, UseLargePages>>

PageNextLarger ==
  /\ pq = NoQuery
  /\ \E p \in PowersOfTwo :
       pq' = Query("next_larger", p, next_larger(page_sizes, p))
  /\ UNCHANGED <<page_sizes, registered, vm_page_size, UseLargePages>>

PageLargest ==
  /\ pq = NoQuery
  /\ pq' = Query("largest", 0, largest(page_sizes))
  /\ UNCHANGED <<page_sizes, registered, vm_page_size, UseLargePages>>

PageSmallest ==
  /\ pq = NoQuery
  /\ pq' = Query("smallest", 0, smallest(page_sizes))
  /\ UNCHANGED <<page_sizes, registered, vm_page_size, UseLargePages>>

PageSizeForRegion ==
  /\ pq = NoQuery
  /\ \E region_size \in 0..(PageMod - 1), min_pages \in 1..MaxMinPages,
        must_be_aligned \in BOOLEAN :
       pq' = [op |-> "page_size_for_region", p |-> 0, region |-> region_size,
              min_pages |-> min_pages, aligned |-> must_be_aligned,
              ret |-> page_size_for_region(page_sizes, region_size, min_pages,
                                           must_be_aligned)]
  /\ UNCHANGED <<page_sizes, registered, vm_page_size, UseLargePages>>

PageInit ==
  /\ page_sizes = 0
  /\ registered = {}
  /\ vm_page_size \in {1, 2, 4}
  /\ UseLargePages \in BOOLEAN
  /\ pq = NoQuery

\* the registry is not in use
PageIdle ==
  /\ page_sizes = 0
  /\ registered = {}
  /\ vm_page_size = 1
  /\ UseLargePages = FALSE
  /\ pq = NoQuery

(***************************************************************************)
(* The signal dispatch thread: signal_thread_entry,                        *)
(* os::initialize_jdk_signal_support and os::terminate_signal_thread.      *)
(***************************************************************************)
VARIABLES
  ReduceSignalUsage,       \* the flag ReduceSignalUsage
  DisableAttachMechanism,  \* the flag DisableAttachMechanism
  signal_support,          \* os::initialize_jdk_signal_support has run
  sigpc,                   \* where the signal thread is in signal_thread_entry
  sig,                     \* its local sig
  pending_signals,         \* signal -> notifications not yet returned by signal_wait
  pending_exception,       \* the thread has a pending exception
  attach_state,            \* the state of the attach listener
  listener,                \* the attach listener thread
  terminate_called,        \* os::terminate_signal_thread has been called
  notified,                \* exit notifications sent
  dispatched,              \* signals handed to a handler, in order
  warnings,                \* warnings printed for exceptions of the upcall
  nraised,                 \* signals raised so far
  ignored,                 \* diagnostic signals ignored, an initialisation being under way
  PrintClassHistogram,     \* the flag PrintClassHistogram
  negotiation,             \* how the attach negotiation of the signal taken last ended
  dumps                    \* the dumps made for the signal taken last, in order

sigVars == <<ReduceSignalUsage, DisableAttachMechanism, signal_support, sigpc,
             sig, pending_signals, pending_exception, attach_state, listener,
             terminate_called, notified, dispatched, warnings, nraised,
             ignored, PrintClassHistogram, negotiation, dumps>>

dumpVars == <<negotiation, dumps>>

SIGBREAK == "SIGBREAK"
\* some signal with a handler registered at user level
SIGUSER == "SIGUSER"
sigexitnum_pd == "sigexitnum_pd"
Signals == {SIGBREAK, SIGUSER, sigexitnum_pd}

AL_NOT_INITIALIZED == "AL_NOT_INITIALIZED"
AL_INITIALIZING == "AL_INITIALIZING"
AL_INITIALIZED == "AL_INITIALIZED"

\* the thread is blocked in os::signal_wait / is running a handler
WAITING == {"waiting"}
DUMPING == {"print", "find_deadlocks", "print_heap", "heap_inspection",
            "data_dump"}
DISPATCHING == {"dispatch", "attach_init", "upcall", "upcall_done"} \cup DUMPING

\* void os::signal_notify(int sig)
signal_notify(pending, s) == [pending EXCEPT ![s] = @ + 1]

\* AttachListener::transit_state(state, cmp_state): compare and exchange,
\* the value found is returned
transit_state(cur, state, cmp_state) ==
  [found |-> cur, now |-> IF cur = cmp_state THEN state ELSE cur]

\* if (sig == os::sigexitnum_pd())
is_exit_signal_never(s) == FALSE

is_exit_signal(s) == s = sigexitnum_pd

\* what the SIGBREAK case does with the state found by transit_state
attach_branch_no_ignore(cur_state) ==
  IF cur_state = AL_INITIALIZED THEN "check_socket_file" ELSE "is_init_trigger"

attach_branch(cur_state) ==
  IF cur_state = AL_INITIALIZING THEN "continue"
  ELSE IF cur_state = AL_NOT_INITIALIZED THEN "is_init_trigger"
  ELSE "check_socket_file"

\* if (HAS_PENDING_EXCEPTION) { if (tty != nullptr) warning(..); CLEAR_PENDING_EXCEPTION; }
after_upcall_clears_with_tty(has_exception, tty_ok) ==
  [exception |-> has_exception /\ ~tty_ok, warned |-> has_exception /\ tty_ok]

after_upcall(has_exception, tty_ok) ==
  [exception |-> FALSE, warned |-> has_exception /\ tty_ok]

\* void os::initialize_jdk_signal_support(TRAPS)
InitializeJdkSignalSupport ==
  /\ ~signal_support
  /\ signal_support' = TRUE
  /\ sigpc' = IF ~ReduceSignalUsage THEN "waiting" ELSE sigpc
  /\ UNCHANGED <<ReduceSignalUsage, DisableAttachMechanism, PrintClassHistogram, sig,
                 pending_signals, pending_exception, attach_state, listener,
                 terminate_called, notified, dispatched, warnings, nraised, ignored>>
  /\ UNCHANGED dumpVars

\* void os::terminate_signal_thread(), called once at shutdown
TerminateSignalThread ==
  /\ signal_support
  /\ ~terminate_called
  /\ terminate_called' = TRUE
  /\ IF ~ReduceSignalUsage
     THEN /\ pending_signals' = signal_notify(pending_signals, sigexitnum_pd)
          /\ notified' = notified + 1
     ELSE UNCHANGED <<pending_signals, notified>>
  /\ UNCHANGED <<ReduceSignalUsage, DisableAttachMechanism, PrintClassHistogram, signal_support,
                 sigpc, sig, pending_exception, attach_state, listener,
                 dispatched, warnings, nraised, ignored>>
  /\ UNCHANGED dumpVars

\* a signal arrives and the VM's handler notifies the signal thread
RaiseSignal ==
  /\ ~ReduceSignalUsage
  /\ nraised < MaxSignals
  /\ \E s \in {SIGBREAK, SIGUSER} :
       pending_signals' = signal_notify(pending_signals, s)
  /\ nraised' = nraised + 1
  /\ UNCHANGED <<ReduceSignalUsage, DisableAttachMechanism, PrintClassHistogram, signal_support,
                 sigpc, sig, pending_exception, attach_state, listener,
                 terminate_called, notified, dispatched, warnings, ignored>>
  /\ UNCHANGED dumpVars

\* sig = os::signal_wait(): blocks until a notification is pending, takes it
SignalWait ==
  /\ sigpc = "waiting"
  /\ \E s \in Signals :
       /\ pending_signals[s] > 0
       /\ pending_signals' = [pending_signals EXCEPT ![s] = @ - 1]
       /\ sig' = s
  /\ sigpc' = "dispatch"
  /\ UNCHANGED <<ReduceSignalUsage, DisableAttachMechanism, PrintClassHistogram, signal_support,
                 pending_exception, attach_state, listener, terminate_called,
                 notified, dispatched, warnings, nraised, ignored>>
  /\ negotiation' = "none"
  /\ dumps' = <<>>

\* if (sig == os::sigexitnum_pd()) return;
SignalExit ==
  /\ sigpc = "dispatch"
  /\ is_exit_signal(sig)
  /\ sigpc' = "terminated"
  /\ UNCHANGED <<ReduceSignalUsage, DisableAttachMechanism, PrintClassHistogram, signal_support,
                 sig, pending_signals, pending_exception, attach_state,
                 listener, terminate_called, notified, dispatched, warnings,
                 nraised, ignored>>
  /\ UNCHANGED dumpVars

\* case SIGBREAK, up to the call of is_init_trigger or check_socket_file
SigbreakAttach ==
  /\ sigpc = "dispatch"
  /\ ~is_exit_signal(sig)
  /\ sig = SIGBREAK
  /\ dispatched' = Append(dispatched, sig)
  /\ IF DisableAttachMechanism
     THEN /\ sigpc' = "print"
          /\ negotiation' = "disabled"
          /\ UNCHANGED <<attach_state, listener, ignored>>
     ELSE LET cas == transit_state(attach_state, AL_INITIALIZING,
                                   AL_NOT_INITIALIZED)
              branch == attach_branch(cas.found)
          IN  IF branch = "continue"
              THEN /\ sigpc' = "waiting"
                   /\ attach_state' = cas.now
                   /\ ignored' = ignored + 1
                   /\ negotiation' = "initializing"
                   /\ UNCHANGED listener
              ELSE IF branch = "is_init_trigger"
              THEN /\ sigpc' = "attach_init"
                   /\ attach_state' = cas.now
                   /\ negotiation' = "won"
                   /\ UNCHANGED <<listener, ignored>>
              ELSE \* check_socket_file: the socket file is there: print the
                   \* stack traces; it is gone: the listener is restarted
                   \* and the signal accepted
                   \/ /\ sigpc' = "print"
                      /\ attach_state' = cas.now
                      /\ negotiation' = "socket_file_there"
                      /\ UNCHANGED <<listener, ignored>>
                   \/ /\ listener = "serving"
                      /\ sigpc' = "waiting"
                      /\ attach_state' = AL_INITIALIZING
                      /\ listener' = "initializing"
                      /\ negotiation' = "restarted"
                      /\ UNCHANGED ignored
  /\ UNCHANGED <<ReduceSignalUsage, DisableAttachMechanism, PrintClassHistogram, signal_support,
                 sig, pending_signals, pending_exception, terminate_called,
                 notified, warnings, nraised, dumps>>

\* the attach state after is_init_trigger() has answered
state_after_trigger_left_initializing(triggered, cur_state) == cur_state

state_after_trigger(triggered, cur_state) ==
  IF triggered THEN cur_state ELSE AL_NOT_INITIALIZED

\* if (AttachListener::is_init_trigger()) continue;
\* else AttachListener::set_state(AL_NOT_INITIALIZED);
IsInitTrigger ==
  /\ sigpc = "attach_init"
  /\ \E triggered \in BOOLEAN :
       /\ attach_state' = state_after_trigger(triggered, attach_state)
       /\ listener' = IF triggered THEN "initializing" ELSE listener
       /\ sigpc' = IF triggered THEN "waiting" ELSE "print"
       /\ negotiation' = IF triggered THEN "triggered" ELSE "start_failed"
  /\ UNCHANGED <<ReduceSignalUsage, DisableAttachMechanism, PrintClassHistogram, signal_support,
                 sig, pending_signals, pending_exception, terminate_called,
                 notified, dispatched, warnings, nraised, ignored, dumps>>

\* the step that follows Universe::print_heap_at_SIGBREAK()
after_print_heap_never_inspects(class_histogram) == "data_dump"

after_print_heap(class_histogram) ==
  IF class_histogram THEN "heap_inspection" ELSE "data_dump"

\* one dump of the SIGBREAK case is made and the thread moves on
dump(step, next_pc) ==
  /\ dumps' = Append(dumps, step)
  /\ sigpc' = next_pc
  /\ UNCHANGED <<ReduceSignalUsage, DisableAttachMechanism, PrintClassHistogram, signal_support,
                 sig, pending_signals, pending_exception, attach_state,
                 listener, terminate_called, notified, dispatched, warnings,
                 nraised, ignored, negotiation>>

\* VM_PrintThreads op(tty, ...); VMThread::execute(&op);
PrintStackTraces ==
  /\ sigpc = "print"
  /\ dump("VM_PrintThreads", "find_deadlocks")

\* VM_FindDeadlocks op1(tty); VMThread::execute(&op1);
FindDeadlocks ==
  /\ sigpc = "find_deadlocks"
  /\ dump("VM_FindDeadlocks", "print_heap")

\* Universe::print_heap_at_SIGBREAK(); if (PrintClassHistogram)
PrintHeap ==
  /\ sigpc = "print_heap"
  /\ dump("print_heap_at_SIGBREAK", after_print_heap(PrintClassHistogram))

\* VM_GC_HeapInspection op1(tty, true); VMThread::execute(&op1);
HeapInspection ==
  /\ sigpc = "heap_inspection"
  /\ dump("VM_GC_HeapInspection", "data_dump")

\* if (JvmtiExport::should_post_data_dump()) JvmtiExport::post_data_dump();
\* break;
PostDataDump ==
  /\ sigpc = "data_dump"
  /\ \E should_post_data_dump \in BOOLEAN :
       dumps' = IF should_post_data_dump
                  THEN Append(dumps, "post_data_dump")
                  ELSE dumps
  /\ sigpc' = "waiting"
  /\ UNCHANGED <<ReduceSignalUsage, DisableAttachMechanism, PrintClassHistogram, signal_support,
                 sig, pending_signals, pending_exception, attach_state,
                 listener, terminate_called, notified, dispatched, warnings,
                 nraised, ignored, negotiation>>

\* default: the start of the upcall to jdk.internal.misc.Signal.dispatch
DispatchToJava ==
  /\ sigpc = "dispatch"
  /\ ~is_exit_signal(sig)
  /\ sig # SIGBREAK
  /\ dispatched' = Append(dispatched, sig)
  /\ sigpc' = "upcall"
  /\ UNCHANGED <<ReduceSignalUsage, DisableAttachMechanism, PrintClassHistogram, signal_support,
                 sig, pending_signals, pending_exception, attach_state,
                 listener, terminate_called, notified, warnings, nraised, ignored>>
  /\ UNCHANGED dumpVars

\* resolve_or_null and JavaCalls::call_static return, with or without a
\* pending exception
UpcallReturns ==
  /\ sigpc = "upcall"
  /\ pending_exception' \in BOOLEAN
  /\ sigpc' = "upcall_done"
  /\ UNCHANGED <<ReduceSignalUsage, DisableAttachMechanism, PrintClassHistogram, signal_support,
                 sig, pending_signals, attach_state, listener,
                 terminate_called, notified, dispatched, warnings, nraised, ignored>>
  /\ UNCHANGED dumpVars

\* if (HAS_PENDING_EXCEPTION) { ... CLEAR_PENDING_EXCEPTION; }
AfterUpcall ==
  /\ sigpc = "upcall_done"
  /\ \E tty_ok \in BOOLEAN :
       LET r == after_upcall(pending_exception, tty_ok)
       IN  /\ pending_exception' = r.exception
           /\ warnings' = IF r.warned THEN warnings + 1 ELSE warnings
  /\ sigpc' = "waiting"
  /\ UNCHANGED <<ReduceSignalUsage, DisableAttachMechanism, PrintClassHistogram, signal_support,
                 sig, pending_signals, attach_state, listener,
                 terminate_called, notified, dispatched, nraised, ignored>>
  /\ UNCHANGED dumpVars

\* the attach listener thread finishes its initialisation, or fails
ListenerInitialized ==
  /\ listener = "initializing"
  /\ \/ /\ attach_state' = AL_INITIALIZED
        /\ listener' = "serving"
     \/ /\ attach_state' = AL_NOT_INITIALIZED
        /\ listener' = "none"
  /\ UNCHANGED <<ReduceSignalUsage, DisableAttachMechanism, PrintClassHistogram, signal_support,
                 sigpc, sig, pending_signals, pending_exception,
                 terminate_called, notified, dispatched, warnings, nraised, ignored>>
  /\ UNCHANGED dumpVars

\* the attach listener thread ends
ListenerStops ==
  /\ listener = "serving"
  /\ attach_state' = AL_NOT_INITIALIZED
  /\ listener' = "none"
  /\ UNCHANGED <<ReduceSignalUsage, DisableAttachMechanism, PrintClassHistogram, signal_support,
                 sigpc, sig, pending_signals, pending_exception,
                 terminate_called, notified, dispatched, warnings, nraised, ignored>>
  /\ UNCHANGED dumpVars

\* the steps of the signal thread
signal_thread_entry ==
  \/ SignalWait
  \/ SignalExit
  \/ SigbreakAttach
  \/ IsInitTrigger
  \/ PrintStackTraces
  \/ FindDeadlocks
  \/ PrintHeap
  \/ HeapInspection
  \/ PostDataDump
  \/ DispatchToJava
  \/ UpcallReturns
  \/ AfterUpcall

SigInit ==
  /\ ReduceSignalUsage \in BOOLEAN
  /\ DisableAttachMechanism \in BOOLEAN
  /\ signal_support = FALSE
  /\ sigpc = "none"
  /\ sig = SIGBREAK
  /\ pending_signals = [s \in Signals |-> 0]
  /\ pending_exception = FALSE
  /\ attach_state = AL_NOT_INITIALIZED
  /\ listener = "none"
  /\ terminate_called = FALSE
  /\ notified = 0
  /\ dispatched = <<>>
  /\ warnings = 0
  /\ nraised = 0
  /\ ignored = 0
  /\ PrintClassHistogram \in BOOLEAN
  /\ negotiation = "none"
  /\ dumps = <<>>

\* no signal support
SigIdle ==
  /\ ReduceSignalUsage = TRUE
  /\ DisableAttachMechanism = TRUE
  /\ signal_support = FALSE
  /\ sigpc = "none"
  /\ sig = SIGBREAK
  /\ pending_signals = [s \in Signals |-> 0]
  /\ pending_exception = FALSE
  /\ attach_state = AL_NOT_INITIALIZED
  /\ listener = "none"
  /\ terminate_called = FALSE
  /\ notified = 0
  /\ dispatched = <<>>
  /\ warnings = 0
  /\ nraised = 0
  /\ ignored = 0
  /\ PrintClassHistogram = FALSE
  /\ negotiation = "none"
  /\ dumps = <<>>

(***************************************************************************)
(* The virtual memory manager: os::reserve_memory ... os::unmap_memory on  *)
(* top of the platform primitives pd_* and the NMT virtual memory ledger.  *)
(***************************************************************************)
VARIABLES
  tracking,      \* MemTracker::enabled() for the virtual memory calls
  vm_ledger,     \* the events recorded by the virtual memory ledger, in order
  pd_done,       \* the platform calls that reported success, in order
  vm_log,        \* the log events emitted by this layer
  vm_exited,     \* the process was ended (vm_exit_out_of_memory)
  vmcall,        \* the last call: arguments, platform answer, result
  nvmcalls       \* calls made so far

vmVars == <<tracking, vm_ledger, pd_done, vm_log, vm_exited, vmcall, nvmcalls>>

Regions == 1..NumRegions
\* sizes in pages
VmSizes == {1, 2}

\* the state the calls work on
VmCur == [ledger |-> vm_ledger, log |-> vm_log, exited |-> vm_exited]

Event(kind, addr, bytes) == [kind |-> kind, addr |-> addr, bytes |-> bytes]

\* MemTracker::record_virtual_memory_reserve / _commit / _reserve_and_commit
record_virtual_memory(s, kind, addr, bytes) ==
  IF tracking THEN [s EXCEPT !.ledger = Append(@, Event(kind, addr, bytes))]
  ELSE s

\* Tracker tkr(type); tkr.record(addr, bytes)
Tracker_record(s, type, addr, bytes) ==
  [s EXCEPT !.ledger = Append(@, Event(type, addr, bytes))]

\* log_debug(os)(..., get_last_error()) and log_info(os)(...)
log_event(s, op, with_errno) ==
  [s EXCEPT !.log = Append(@, [op |-> op, errno |-> with_errno])]

\* the result of a call: the value returned (0: nullptr or false) and the state
VmOutcome(s, ret) == [ret |-> ret, s |-> s]

\* if (result != nullptr) { MemTracker::record_...(result, bytes, ...); }
reserved(s, kind, result, bytes) ==
  IF result # 0 THEN record_virtual_memory(s, kind, result, bytes) ELSE s

\* char* os::reserve_memory(size_t bytes, bool executable, MEMFLAGS flags)
os_reserve_memory(s, bytes, result) ==
  VmOutcome(reserved(s, "reserve", result, bytes), result)

\* char* os::attempt_reserve_memory_at(char* addr, size_t bytes, bool executable)
os_attempt_reserve_memory_at(s, addr, bytes, result) ==
  IF result # 0
  THEN VmOutcome(record_virtual_memory(s, "reserve", result, bytes), result)
  ELSE VmOutcome(log_event(s, "attempt_reserve_memory_at", TRUE), result)

\* bool os::commit_memory(char* addr, size_t bytes, bool executable) and
\* bool os::commit_memory(char* addr, size_t size, size_t alignment_hint, bool)
os_commit_memory(s, addr, bytes, pd_res) ==
  VmOutcome(IF pd_res THEN record_virtual_memory(s, "commit", addr, bytes) ELSE s,
            IF pd_res THEN 1 ELSE 0)

\* void os::commit_memory_or_exit(...), both forms: pd_commit_memory_or_exit
\* does not return when the commit fails
os_commit_memory_or_exit(s, addr, bytes, pd_res) ==
  IF pd_res
  THEN VmOutcome(record_virtual_memory(s, "commit", addr, bytes), 1)
  ELSE VmOutcome([s EXCEPT !.exited = TRUE], 0)

\* the body shared by os::uncommit_memory, os::release_memory,
\* os::release_memory_special and os::unmap_memory
tracked_always_records(s, type, addr, bytes, pd_res) ==
  IF tracking THEN Tracker_record(s, type, addr, bytes) ELSE s

tracked(s, type, addr, bytes, pd_res) ==
  IF tracking
  THEN IF pd_res THEN Tracker_record(s, type, addr, bytes) ELSE s
  ELSE s

\* bool os::uncommit_memory(char* addr, size_t bytes, bool executable)
os_uncommit_memory(s, addr, bytes, pd_res) ==
  VmOutcome(tracked(s, "uncommit", addr, bytes, pd_res), IF pd_res THEN 1 ELSE 0)

\* bool os::release_memory(char* addr, size_t bytes)
os_release_memory(s, addr, bytes, pd_res) ==
  LET s1 == tracked(s, "release", addr, bytes, pd_res)
  IN  VmOutcome(IF ~pd_res THEN log_event(s1, "release_memory", FALSE) ELSE s1,
                IF pd_res THEN 1 ELSE 0)

\* bool os::release_memory_special(char* addr, size_t bytes)
os_release_memory_special(s, addr, bytes, pd_res) ==
  VmOutcome(tracked(s, "release", addr, bytes, pd_res), IF pd_res THEN 1 ELSE 0)

\* bool os::unmap_memory(char *addr, size_t bytes)
os_unmap_memory(s, addr, bytes, pd_res) ==
  VmOutcome(tracked(s, "release", addr, bytes, pd_res), IF pd_res THEN 1 ELSE 0)

\* char* os::map_memory(fd, file_name, file_offset, addr, bytes, ...), and the
\* same shape: os::map_memory_to_file, os::attempt_map_memory_to_file_at,
\* os::reserve_memory_special
os_map_memory(s, bytes, result) ==
  VmOutcome(reserved(s, "reserve_and_commit", result, bytes), result)

\* char* os::remap_memory(...): no ledger event
os_remap_memory(s, result) == VmOutcome(s, result)

\* the ledger event of a platform call that succeeded
EventKind ==
  [reserve_memory |-> "reserve",
   attempt_reserve_memory_at |-> "reserve",
   commit_memory |-> "commit",
   commit_memory_or_exit |-> "commit",
   uncommit_memory |-> "uncommit",
   release_memory |-> "release",
   release_memory_special |-> "release",
   unmap_memory |-> "release",
   map_memory |-> "reserve_and_commit",
   map_memory_to_file |-> "reserve_and_commit",
   attempt_map_memory_to_file_at |-> "reserve_and_commit",
   reserve_memory_special |-> "reserve_and_commit"]

NoVmCall == [op |-> "none", addr |-> 0, bytes |-> 0, pd_ok |-> FALSE, ret |-> 0]

\* a call of op: pd_ok is the platform's answer, at is the address it gave or
\* worked on, o the outcome computed by the function
VmApply(op, addr, bytes, pd_ok, at, o) ==
  /\ ~vm_exited
  /\ nvmcalls < MaxVmCalls
  /\ nvmcalls' = nvmcalls + 1
  /\ vm_ledger' = o.s.ledger
  /\ vm_log' = o.s.log
  /\ vm_exited' = o.s.exited
  /\ pd_done' = IF pd_ok /\ op \in DOMAIN EventKind
                THEN Append(pd_done, Event(EventKind[op], at, bytes))
                ELSE pd_done
  /\ vmcall' = [op |-> op, addr |-> addr, bytes |-> bytes, pd_ok |-> pd_ok,
                ret |-> o.ret]
  /\ UNCHANGED tracking

\* the answers of a platform primitive that returns an address
PdAddresses == {0} \cup Regions

ReserveMemory ==
  \E bytes \in VmSizes, result \in PdAddresses :
    VmApply("reserve_memory", 0, bytes, result # 0, result,
            os_reserve_memory(VmCur, bytes, result))

AttemptReserveMemoryAt ==
  \E addr \in Regions, bytes \in VmSizes : \E result \in {0, addr} :
    VmApply("attempt_reserve_memory_at", addr, bytes, result # 0, result,
            os_attempt_reserve_memory_at(VmCur, addr, bytes, result))

CommitMemory ==
  \E addr \in Regions, bytes \in VmSizes, pd_res \in BOOLEAN :
    VmApply("commit_memory", addr, bytes, pd_res, addr,
            os_commit_memory(VmCur, addr, bytes, pd_res))

CommitMemoryOrExit ==
  \E addr \in Regions, bytes \in VmSizes, pd_res \in BOOLEAN :
    VmApply("commit_memory_or_exit", addr, bytes, pd_res, addr,
            os_commit_memory_or_exit(VmCur, addr, bytes, pd_res))

UncommitMemory ==
  \E addr \in Regions, bytes \in VmSizes, pd_res \in BOOLEAN :
    VmApply("uncommit_memory", addr, bytes, pd_res, addr,
            os_uncommit_memory(VmCur, addr, bytes, pd_res))

ReleaseMemory ==
  \E addr \in Regions, bytes \in VmSizes, pd_res \in BOOLEAN :
    VmApply("release_memory", addr, bytes, pd_res, addr,
            os_release_memory(VmCur, addr, bytes, pd_res))

ReleaseMemorySpecial ==
  \E addr \in Regions, bytes \in VmSizes, pd_res \in BOOLEAN :
    VmApply("release_memory_special", addr, bytes, pd_res, addr,
            os_release_memory_special(VmCur, addr, bytes, pd_res))

UnmapMemory ==
  \E addr \in Regions, bytes \in VmSizes, pd_res \in BOOLEAN :
    VmApply("unmap_memory", addr, bytes, pd_res, addr,
            os_unmap_memory(VmCur, addr, bytes, pd_res))

MapMemory ==
  \E op \in {"map_memory", "map_memory_to_file",
             "attempt_map_memory_to_file_at", "reserve_memory_special"},
     bytes \in VmSizes, result \in PdAddresses :
    VmApply(op, 0, bytes, result # 0, result,
            os_map_memory(VmCur, bytes, result))

RemapMemory ==
  \E addr \in Regions, bytes \in VmSizes : \E result \in {0, addr} :
    VmApply("remap_memory", addr, bytes, result # 0, result,
            os_remap_memory(VmCur, result))

VmInit ==
  /\ tracking \in BOOLEAN
  /\ vm_ledger = <<>>
  /\ pd_done = <<>>
  /\ vm_log = <<>>
  /\ vm_exited = FALSE
  /\ vmcall = NoVmCall
  /\ nvmcalls = 0

\* no virtual memory call is made
VmIdle ==
  /\ tracking = FALSE
  /\ vm_ledger = <<>>
  /\ pd_done = <<>>
  /\ vm_log = <<>>
  /\ vm_exited = FALSE
  /\ vmcall = NoVmCall
  /\ nvmcalls = 0

(***************************************************************************)
(* os::pretouch_memory                                                     *)
(***************************************************************************)
VARIABLES
  pt_pc,          \* where the call is: "idle", "loop", "done"
  pt_start,       \* void* start
  pt_end,         \* void* end
  pt_page_size,   \* size_t page_size
  pd_page_size,   \* the page size returned by pd_pretouch_memory
  pt_last,        \* void* last
  pt_cur,         \* char* cur
  touched         \* the addresses given to Atomic::add, in order

touchVars == <<pt_pc, pt_start, pt_end, pt_page_size, pd_page_size, pt_last,
               pt_cur, touched>>

\* pointers are 0 .. AddrMod - 1, pointer arithmetic wraps
AddrMod == 2 ^ AddrBits
Addresses == 0..(AddrMod - 1)

\* sizeof(int)
sizeof_int == 4

\* the page sizes that pass the assertions of pretouch_memory
TouchPageSizes == {2 ^ k : k \in 0..(AddrBits - 1)} \ (0..(sizeof_int - 1))

\* align_down(ptr, alignment) for a power of two alignment
align_down(ptr, alignment) == ptr - (ptr % alignment)

\* the answers of pd_pretouch_memory(first, last, page_size): 0 when the
\* platform did the work, else the page size to touch with, page_size or a
\* smaller one (the base page size)
PdPretouchAnswers(page_size) ==
  {0} \cup {q \in TouchPageSizes : q <= page_size}

\* last = align_down(static_cast<char*>(end) - 1, pd_page_size)
last_page_at_end(end, page_size) == align_down(end, page_size)

last_page(end, page_size) == align_down((end - 1) % AddrMod, page_size)

\* if (cur >= last) break;
loop_ends_one_early(cur, last_, step) == cur + step >= last_

loop_ends(cur, last_, step) == cur >= last_

\* the call up to the loop: the assertions hold of the arguments
PretouchMemory ==
  /\ pt_pc = "idle"
  /\ \E start \in Addresses, end \in Addresses, page_size \in TouchPageSizes :
       /\ start <= end
       /\ pt_start' = start
       /\ pt_end' = end
       /\ pt_page_size' = page_size
       /\ IF start < end
          THEN LET first == align_down(start, page_size)
                   last_ == last_page(end, page_size)
               IN  \E answer \in PdPretouchAnswers(page_size) :
                     /\ pd_page_size' = answer
                     /\ IF answer > 0
                        THEN /\ pt_last' = last_page(end, answer)
                             /\ pt_cur' = first
                             /\ pt_pc' = "loop"
                        ELSE /\ pt_last' = last_
                             /\ pt_cur' = first
                             /\ pt_pc' = "done"
          ELSE /\ pt_pc' = "done"
               /\ UNCHANGED <<pd_page_size, pt_last, pt_cur>>
  /\ UNCHANGED touched

\* one round of the loop: Atomic::add(cur, 0); if (cur >= last) break;
\* cur += pd_page_size
Touch ==
  /\ pt_pc = "loop"
  /\ Len(touched) <= AddrMod
  /\ touched' = Append(touched, pt_cur)
  /\ IF loop_ends(pt_cur, pt_last, pd_page_size)
     THEN /\ pt_pc' = "done"
          /\ UNCHANGED pt_cur
     ELSE /\ pt_cur' = (pt_cur + pd_page_size) % AddrMod
          /\ UNCHANGED pt_pc
  /\ UNCHANGED <<pt_start, pt_end, pt_page_size, pd_page_size, pt_last>>

\* no call of pretouch_memory is under way
TouchIdle ==
  /\ pt_pc = "idle"
  /\ pt_start = 0
  /\ pt_end = 0
  /\ pt_page_size = sizeof_int
  /\ pd_page_size = 0
  /\ pt_last = 0
  /\ pt_cur = 0
  /\ touched = <<>>

(***************************************************************************)
(* Readable-memory probes: os::is_readable_pointer and                     *)
(* os::is_readable_range.                                                  *)
(***************************************************************************)
VARIABLES
  mem_readable,  \* page number -> whether the page can be read
  mem_word,      \* the 32-bit value stored in the words of the readable pages
  pr_pc,         \* "idle", "loop" (inside is_readable_range) or "done"
  pr_op,         \* the probe called
  pr_from,       \* its pointer argument (from, or p)
  pr_to,         \* the end of the range
  pr_p,          \* the loop variable of is_readable_range
  pr_probed,     \* addresses is_readable_pointer was called on by the loop
  pr_wrapped,    \* whether p += min_page_size() has wrapped around
  pr_faulted,    \* whether a read has raised a fault
  pr_ret         \* the value returned

probeVars == <<mem_readable, mem_word, pr_pc, pr_op, pr_from, pr_to, pr_p,
               pr_probed, pr_wrapped, pr_faulted, pr_ret>>

\* the two tester values, as the int they are stored in
cafebabe == -889275714
deadbeef == -559038737

\* the page size is scaled down to two words
min_page_size == 8

\* uintptr_t arithmetic wraps at the top of the address space
ProbeMod == ProbePages * min_page_size
ProbeAddresses == 0..(ProbeMod - 1)
ProbeWords == {0, cafebabe, deadbeef}

page_of(adr) == adr \div min_page_size

\* SafeFetch32(adr, errValue): the word at adr, or errValue when reading it
\* would fault; the fault itself is suppressed
SafeFetch32(adr, errValue) ==
  IF mem_readable[page_of(adr)] THEN mem_word ELSE errValue

SafeFetchFaults(adr) == FALSE

is_readable_pointer_first_tester_only(p) ==
  LET aligned == align_down(p, 4)
  IN  SafeFetch32(aligned, cafebabe) # cafebabe

is_readable_pointer(p) ==
  LET aligned == align_down(p, 4)
  IN  \/ SafeFetch32(aligned, cafebabe) # cafebabe
      \/ SafeFetch32(aligned, deadbeef) # deadbeef

ProbeInit ==
  /\ mem_readable \in [0..(ProbePages - 1) -> BOOLEAN]
  /\ mem_word \in ProbeWords
  /\ pr_pc = "idle"
  /\ pr_op = "none"
  /\ pr_from = 0
  /\ pr_to = 0
  /\ pr_p = 0
  /\ pr_probed = {}
  /\ pr_wrapped = FALSE
  /\ pr_faulted = FALSE
  /\ pr_ret = FALSE

ProbeIdle ==
  /\ mem_readable = [g \in 0..(ProbePages - 1) |-> FALSE]
  /\ mem_word = 0
  /\ pr_pc = "idle"
  /\ pr_op = "none"
  /\ pr_from = 0
  /\ pr_to = 0
  /\ pr_p = 0
  /\ pr_probed = {}
  /\ pr_wrapped = FALSE
  /\ pr_faulted = FALSE
  /\ pr_ret = FALSE

\* a call of os::is_readable_pointer(p)
IsReadablePointer ==
  /\ pr_pc = "idle"
  /\ \E p \in ProbeAddresses :
       /\ pr_op' = "is_readable_pointer"
       /\ pr_from' = p
       /\ pr_faulted' = SafeFetchFaults(align_down(p, 4))
       /\ pr_ret' = is_readable_pointer(p)
  /\ pr_pc' = "done"
  /\ UNCHANGED <<mem_readable, mem_word, pr_to, pr_p, pr_probed, pr_wrapped>>

\* os::is_readable_range(from, to) up to the start of its loop
IsReadableRange ==
  /\ pr_pc = "idle"
  /\ \E from \in ProbeAddresses, to \in ProbeAddresses :
       /\ pr_op' = "is_readable_range"
       /\ pr_from' = from
       /\ pr_to' = to
       /\ IF from >= to
            THEN /\ pr_pc' = "done"
                 /\ pr_ret' = FALSE
                 /\ pr_p' = pr_p
            ELSE /\ pr_pc' = "loop"
                 /\ pr_ret' = pr_ret
                 /\ pr_p' = align_down(from, min_page_size)
  /\ UNCHANGED <<mem_readable, mem_word, pr_probed, pr_wrapped, pr_faulted>>

\* the loop test of is_readable_range and, where it passes, one iteration
RangeStep ==
  /\ pr_pc = "loop"
  /\ IF pr_p < pr_to
       THEN /\ pr_probed' = pr_probed \cup {pr_p}
            /\ pr_faulted' = (pr_faulted \/ SafeFetchFaults(pr_p))
            /\ IF ~is_readable_pointer(pr_p)
                 THEN /\ pr_pc' = "done"
                      /\ pr_ret' = FALSE
                      /\ UNCHANGED <<pr_p, pr_wrapped>>
                 ELSE /\ pr_p' = (pr_p + min_page_size) % ProbeMod
                      /\ pr_wrapped' =
                           (pr_wrapped \/ pr_p + min_page_size >= ProbeMod)
                      /\ UNCHANGED <<pr_pc, pr_ret>>
       ELSE /\ pr_pc' = "done"
            /\ pr_ret' = TRUE
            /\ UNCHANGED <<pr_p, pr_probed, pr_wrapped, pr_faulted>>
  /\ UNCHANGED <<mem_readable, mem_word, pr_op, pr_from, pr_to>>

(***************************************************************************)
(* Thread priorities: os::set_priority and os::get_priority.               *)
(***************************************************************************)
VARIABLES
  java_to_os_priority, \* the platform's table, level -> native value
  is_ConcurrentGC_thread,
  native_priority,     \* the native priority the thread runs at
  prio_op,             \* the last call
  prio_arg,            \* the level passed to set_priority
  prio_ret,            \* the OSReturn of the last call
  prio_before,         \* the caller's output variable before get_priority
  priority,            \* the caller's output variable
  prio_set             \* the level of the last successful set_priority,
                       \* 0 once the native priority was set otherwise

prioVars == <<java_to_os_priority, is_ConcurrentGC_thread, native_priority,
              prio_op, prio_arg, prio_ret, prio_before, priority, prio_set>>

MinPriority == 1
MaxPriority == 10
CriticalPriority == 11

PriorityLevels == MinPriority..MaxPriority
NativeValues == 0..(NativeLevels - 1)

non_decreasing(table) ==
  \A p \in MinPriority..(MaxPriority - 1) : table[p] <= table[p + 1]

non_increasing(table) ==
  \A p \in MinPriority..(MaxPriority - 1) : table[p] >= table[p + 1]

monotonic(table) == non_decreasing(table) \/ non_increasing(table)

\* two strictly monotonic tables: one native value per level, ascending, and
\* the same reversed (niceness)
StrictTables ==
  {[p \in PriorityLevels |-> p], [p \in PriorityLevels |-> MaxPriority - p]}

\* the monotonic tables; the entry of CriticalPriority is that of MaxPriority
PriorityTables ==
  {[p \in MinPriority..CriticalPriority |->
      IF p = CriticalPriority THEN t[MaxPriority] ELSE t[p]] :
     t \in {u \in [PriorityLevels -> NativeValues] : monotonic(u)}
            \cup StrictTables}

keeps_scanning_ascending_only(p, os_prio) ==
  java_to_os_priority[p] > os_prio

\* the condition of the two loops of get_priority, past p > MinPriority
keeps_scanning(p, os_prio) ==
  IF java_to_os_priority[MaxPriority] > java_to_os_priority[MinPriority]
    THEN java_to_os_priority[p] > os_prio
    ELSE java_to_os_priority[p] < os_prio

RECURSIVE scan_down(_, _)
scan_down(p, os_prio) ==
  IF p > MinPriority /\ keeps_scanning(p, os_prio)
    THEN scan_down(p - 1, os_prio)
    ELSE p

PrioInit ==
  /\ java_to_os_priority \in PriorityTables
  /\ is_ConcurrentGC_thread \in BOOLEAN
  /\ native_priority \in NativeValues
  /\ prio_op = "none"
  /\ prio_arg = MinPriority
  /\ prio_ret = "OS_OK"
  /\ prio_before = MinPriority
  /\ priority = MinPriority
  /\ prio_set = 0

PrioIdle ==
  /\ java_to_os_priority = [p \in MinPriority..CriticalPriority |-> 0]
  /\ is_ConcurrentGC_thread = FALSE
  /\ native_priority = 0
  /\ prio_op = "none"
  /\ prio_arg = MinPriority
  /\ prio_ret = "OS_OK"
  /\ prio_before = MinPriority
  /\ priority = MinPriority
  /\ prio_set = 0

\* os::set_priority(thread, p); set_native_priority succeeds or fails
SetPriority ==
  /\ prio_op = "none"
  /\ \E p \in MinPriority..CriticalPriority, native_ok \in BOOLEAN :
       /\ prio_arg' = p
       /\ IF \/ (p >= MinPriority /\ p <= MaxPriority)
             \/ (p = CriticalPriority /\ is_ConcurrentGC_thread)
            THEN IF native_ok
                   THEN /\ native_priority' = java_to_os_priority[p]
                        /\ prio_set' = p
                        /\ prio_ret' = "OS_OK"
                   ELSE /\ prio_ret' = "OS_ERR"
                        /\ UNCHANGED <<native_priority, prio_set>>
            ELSE /\ prio_ret' = "OS_ERR"
                 /\ UNCHANGED <<native_priority, prio_set>>
  /\ prio_op' = "set_priority"
  /\ UNCHANGED <<java_to_os_priority, is_ConcurrentGC_thread, prio_before,
                 priority>>

\* os::get_priority(thread, priority); get_native_priority succeeds or fails
GetPriority ==
  /\ prio_op \in {"none", "set_priority"}
  /\ \E before \in PriorityLevels, native_ok \in BOOLEAN :
       /\ prio_before' = before
       /\ IF ~native_ok
            THEN /\ prio_ret' = "OS_ERR"
                 /\ priority' = before
            ELSE /\ priority' = scan_down(MaxPriority, native_priority)
                 /\ prio_ret' = "OS_OK"
  /\ prio_op' = "get_priority"
  /\ UNCHANGED <<java_to_os_priority, is_ConcurrentGC_thread,
                 native_priority, prio_arg, prio_set>>

(***************************************************************************)
(* os::split_path.                                                         *)
(***************************************************************************)
VARIABLES
  sp_pc,        \* "idle" or "done"
  sp_path,      \* the path argument, a sequence of characters, or nullptr
  sp_fnl,       \* the file_name_length argument
  sp_elements,  \* *elements
  sp_ret,       \* the array returned (a sequence of strings), or no_array
  sp_exited     \* whether vm_exit_during_initialization ended the process

pathVars == <<sp_pc, sp_path, sp_fnl, sp_elements, sp_ret, sp_exited>>

\* a null path, and the null array (an array returned has an element)
nullptr == <<"nullptr">>
no_array == <<>>

\* the platform's path separator and the other characters of the model
path_separator == ":"
PathChars == {"a", "b", path_separator}

JVM_MAXPATHLEN == 1024

RECURSIVE StringsUpTo(_)
StringsUpTo(n) ==
  IF n = 0
    THEN {<<>>}
    ELSE LET shorter == StringsUpTo(n - 1)
         IN  shorter \cup {Append(s, c) : s \in shorter, c \in PathChars}

Paths == StringsUpTo(MaxPathChars)

\* file name lengths: none, short ones, and ones that leave no room
FileNameLengths ==
  {0, 1, 2} \cup (JVM_MAXPATHLEN - MaxPathChars)..JVM_MAXPATHLEN

\* strchr(p, psepchar) on the string s from position pos (1-based): the
\* position of the first separator at or after pos, 0 if there is none
RECURSIVE strchr(_, _)
strchr(s, pos) ==
  IF pos > Len(s) THEN 0
  ELSE IF s[pos] = path_separator THEN pos
  ELSE strchr(s, pos + 1)

\* strcspn(p, os::path_separator()): characters from pos up to the next
\* separator or the end of the string
RECURSIVE strcspn(_, _)
strcspn(s, pos) ==
  IF pos > Len(s) \/ s[pos] = path_separator THEN 0
  ELSE 1 + strcspn(s, pos + 1)

\* the counting loop: p = strchr(inpath); while (p) { count++; p++; ... }
RECURSIVE count_more(_, _)
count_more(s, p) ==
  IF p = 0 THEN 0 ELSE 1 + count_more(s, strchr(s, p + 1))

count_separators_only(s) == count_more(s, strchr(s, 1))

count_elements(s) == 1 + count_more(s, strchr(s, 1))

\* the copying loop, from element i (0-based) at position p of inpath
RECURSIVE copy_elements(_, _, _, _, _, _)
copy_elements(s, p, i, count, file_name_length, opath) ==
  IF i >= count
    THEN [exited |-> FALSE, opath |-> opath]
    ELSE LET len == strcspn(s, p)
         IN  IF len + file_name_length > JVM_MAXPATHLEN
               THEN [exited |-> TRUE, opath |-> no_array]
               ELSE copy_elements(s, p + len + 1, i + 1, count,
                                  file_name_length,
                                  Append(opath, SubSeq(s, p, p + len - 1)))

PathInit ==
  /\ sp_pc = "idle"
  /\ sp_path \in Paths \cup {nullptr}
  /\ sp_fnl \in FileNameLengths
  /\ sp_elements = 0
  /\ sp_ret = no_array
  /\ sp_exited = FALSE

PathIdle ==
  /\ sp_pc = "idle"
  /\ sp_path = nullptr
  /\ sp_fnl = 0
  /\ sp_elements = 0
  /\ sp_ret = no_array
  /\ sp_exited = FALSE

\* os::split_path(path, elements, file_name_length)
SplitPath ==
  /\ sp_pc = "idle"
  /\ sp_pc' = "done"
  /\ IF sp_path = nullptr \/ Len(sp_path) = 0 \/ sp_fnl = 0
       THEN /\ sp_elements' = 0
            /\ sp_ret' = no_array
            /\ sp_exited' = FALSE
       ELSE LET count == count_elements(sp_path)
                out == copy_elements(sp_path, 1, 0, count, sp_fnl, <<>>)
            IN  /\ sp_exited' = out.exited
                /\ sp_ret' = out.opath
                /\ sp_elements' = IF out.exited THEN 0 ELSE count
  /\ UNCHANGED <<sp_path, sp_fnl>>

(***************************************************************************)
(* os::pretouch_memory racing with stores of other threads to the words it *)
(* touches.  Atomic::add is one read-modify-write instruction or, on       *)
(* platforms without one, a load-linked / store-conditional loop.          *)
(***************************************************************************)
VARIABLES
  race_mem,       \* page -> the word at the start of the page
  race_stored,    \* page -> the value the other threads stored last
  race_impl,      \* how the build implements Atomic::add: "rmw" or "llsc"
  race_pc,        \* "idle", "add" (before an Atomic::add), "sc", "done"
  race_cur,       \* the page cur points to
  race_loaded,    \* the value read by the load-linked
  race_reserved,  \* the reservation of the load-linked still stands
  race_nstores    \* stores made by the other threads

raceVars == <<race_mem, race_stored, race_impl, race_pc, race_cur,
              race_loaded, race_reserved, race_nstores>>

RaceWords == 1..RacePages
StoreValues == {1, 2}

\* the word after the touch: Atomic::add(reinterpret_cast<int*>(cur), 0, ..)
touched_word_plus_one(word) == word + 1

touched_word(word) == word + 0

\* the store-conditional fails if the word was stored to since the load
store_conditional_always_succeeds(reservation) == TRUE

store_conditional_succeeds(reservation) == reservation

RaceInit ==
  /\ race_mem = [w \in RaceWords |-> 0]
  /\ race_stored = [w \in RaceWords |-> 0]
  /\ race_impl \in {"rmw", "llsc"}
  /\ race_pc = "idle"
  /\ race_cur = 1
  /\ race_loaded = 0
  /\ race_reserved = FALSE
  /\ race_nstores = 0

RaceIdle ==
  /\ race_mem = [w \in RaceWords |-> 0]
  /\ race_stored = [w \in RaceWords |-> 0]
  /\ race_impl = "rmw"
  /\ race_pc = "idle"
  /\ race_cur = 1
  /\ race_loaded = 0
  /\ race_reserved = FALSE
  /\ race_nstores = 0

\* if (cur >= last) break; else cur += pd_page_size
after_touch ==
  IF race_cur >= RacePages
    THEN race_pc' = "done" /\ race_cur' = race_cur
    ELSE race_pc' = "add" /\ race_cur' = race_cur + 1

\* os::pretouch_memory is called on the pages
RacePretouchStarts ==
  /\ race_pc = "idle"
  /\ race_pc' = "add"
  /\ UNCHANGED <<race_mem, race_stored, race_impl, race_cur, race_loaded,
                 race_reserved, race_nstores>>

\* Atomic::add(cur, 0) as one read-modify-write
TouchAtomic ==
  /\ race_pc = "add"
  /\ race_impl = "rmw"
  /\ race_mem' = [race_mem EXCEPT ![race_cur] = touched_word(@)]
  /\ after_touch
  /\ UNCHANGED <<race_stored, race_impl, race_loaded, race_reserved,
                 race_nstores>>

\* Atomic::add(cur, 0): the load-linked
TouchLoadLinked ==
  /\ race_pc = "add"
  /\ race_impl = "llsc"
  /\ race_loaded' = race_mem[race_cur]
  /\ race_reserved' = TRUE
  /\ race_pc' = "sc"
  /\ UNCHANGED <<race_mem, race_stored, race_impl, race_cur, race_nstores>>

\* Atomic::add(cur, 0): the store-conditional, repeated from the load if it fails
TouchStoreConditional ==
  /\ race_pc = "sc"
  /\ IF store_conditional_succeeds(race_reserved)
       THEN /\ race_mem' = [race_mem EXCEPT ![race_cur] =
                              touched_word(race_loaded)]
            /\ after_touch
       ELSE /\ race_pc' = "add"
            /\ UNCHANGED <<race_mem, race_cur>>
  /\ race_reserved' = FALSE
  /\ UNCHANGED <<race_stored, race_impl, race_loaded, race_nstores>>

\* another thread stores to one of the words
WriterStore ==
  /\ race_nstores < MaxStores
  /\ \E w \in RaceWords, v \in StoreValues :
       /\ race_mem' = [race_mem EXCEPT ![w] = v]
       /\ race_stored' = [race_stored EXCEPT ![w] = v]
       /\ race_reserved' = (race_reserved /\ w # race_cur)
  /\ race_nstores' = race_nstores + 1
  /\ UNCHANGED <<race_impl, race_pc, race_cur, race_loaded>>

(***************************************************************************)
(* os::release_memory and os::reserve_memory called concurrently: the      *)
(* platform calls, the records of the ledger and the Tracker's             *)
(* ThreadCritical section in between.                                      *)
(***************************************************************************)
VARIABLES
  nmt_enabled,      \* MemTracker::enabled()
  thread_critical,  \* the thread inside ThreadCritical, 0 if none
  pd_reserved,      \* the regions reserved at the platform
  nmt_reserved,     \* the regions the ledger holds as reserved
  nmt_records,      \* the records made in the ledger, in order
  vt_pc,            \* thread -> "idle", "reserved" (pd_reserve_memory done),
                    \* "releasing" (before pd_release_memory), "released"
  vt_addr,          \* thread -> the region of its call
  vt_held,          \* thread -> the regions it was given and has not released
  vt_ncalls         \* calls started

lockVars == <<nmt_enabled, thread_critical, pd_reserved, nmt_reserved,
              nmt_records, vt_pc, vt_addr, vt_held, vt_ncalls>>

VmThreads == 1..NumVmThreads
VmRegions == 1..NumVmRegions

\* if (MemTracker::enabled()) { Tracker tkr(Tracker::release); ...
\* the Tracker, and with it the ThreadCritical, is constructed before the
\* platform call
tracker_after_pd_call(tracking_enabled) == FALSE

tracker_before_pd_call(tracking_enabled) == tracking_enabled

LockInit ==
  /\ nmt_enabled \in BOOLEAN
  /\ thread_critical = 0
  /\ pd_reserved = {}
  /\ nmt_reserved = {}
  /\ nmt_records = <<>>
  /\ vt_pc = [t \in VmThreads |-> "idle"]
  /\ vt_addr = [t \in VmThreads |-> 0]
  /\ vt_held = [t \in VmThreads |-> {}]
  /\ vt_ncalls = 0

LockIdle ==
  /\ nmt_enabled = FALSE
  /\ thread_critical = 0
  /\ pd_reserved = {}
  /\ nmt_reserved = {}
  /\ nmt_records = <<>>
  /\ vt_pc = [t \in VmThreads |-> "idle"]
  /\ vt_addr = [t \in VmThreads |-> 0]
  /\ vt_held = [t \in VmThreads |-> {}]
  /\ vt_ncalls = 0

\* os::reserve_memory: char* result = pd_reserve_memory(bytes, executable);
\* the platform hands out a region that is free, or fails
ReservePd(t) ==
  /\ vt_pc[t] = "idle"
  /\ vt_ncalls < MaxRaceCalls
  /\ vt_ncalls' = vt_ncalls + 1
  /\ \/ \E a \in VmRegions \ pd_reserved :
          /\ pd_reserved' = pd_reserved \cup {a}
          /\ vt_addr' = [vt_addr EXCEPT ![t] = a]
          /\ vt_pc' = [vt_pc EXCEPT ![t] = "reserved"]
     \/ UNCHANGED <<pd_reserved, vt_addr, vt_pc>>
  /\ UNCHANGED <<nmt_enabled, thread_critical, nmt_reserved, nmt_records,
                 vt_held>>

\* if (result != nullptr) MemTracker::record_virtual_memory_reserve(...);
\* the record is made inside a ThreadCritical of its own
ReserveRecord(t) ==
  /\ vt_pc[t] = "reserved"
  /\ IF nmt_enabled
       THEN /\ thread_critical = 0
            /\ nmt_reserved' = nmt_reserved \cup {vt_addr[t]}
            /\ nmt_records' = Append(nmt_records, <<"reserve", vt_addr[t]>>)
       ELSE UNCHANGED <<nmt_reserved, nmt_records>>
  /\ vt_held' = [vt_held EXCEPT ![t] = @ \cup {vt_addr[t]}]
  /\ vt_pc' = [vt_pc EXCEPT ![t] = "idle"]
  /\ UNCHANGED <<nmt_enabled, thread_critical, pd_reserved, vt_addr,
                 vt_ncalls>>

\* os::release_memory(addr, bytes) on a region the thread holds, up to the
\* platform call
ReleaseStart(t) ==
  /\ vt_pc[t] = "idle"
  /\ vt_ncalls < MaxRaceCalls
  /\ vt_ncalls' = vt_ncalls + 1
  /\ \E a \in vt_held[t] :
       /\ vt_addr' = [vt_addr EXCEPT ![t] = a]
       /\ vt_held' = [vt_held EXCEPT ![t] = @ \ {a}]
  /\ IF tracker_before_pd_call(nmt_enabled)
       THEN thread_critical = 0 /\ thread_critical' = t
       ELSE UNCHANGED thread_critical
  /\ vt_pc' = [vt_pc EXCEPT ![t] = "releasing"]
  /\ UNCHANGED <<nmt_enabled, pd_reserved, nmt_reserved, nmt_records>>

\* res = pd_release_memory(addr, bytes), which succeeds or fails; a failure
\* ends the call with the region still held
ReleasePd(t) ==
  /\ vt_pc[t] = "releasing"
  /\ \/ /\ pd_reserved' = pd_reserved \ {vt_addr[t]}
        /\ vt_pc' = [vt_pc EXCEPT ![t] = "released"]
        /\ UNCHANGED <<thread_critical, vt_held>>
     \/ /\ vt_pc' = [vt_pc EXCEPT ![t] = "idle"]
        /\ vt_held' = [vt_held EXCEPT ![t] = @ \cup {vt_addr[t]}]
        /\ thread_critical' = IF thread_critical = t THEN 0 ELSE thread_critical
        /\ UNCHANGED pd_reserved
  /\ UNCHANGED <<nmt_enabled, nmt_reserved, nmt_records, vt_addr, vt_ncalls>>

\* if (res) tkr.record(addr, bytes); and the end of the Tracker's scope
ReleaseRecord(t) ==
  /\ vt_pc[t] = "released"
  /\ IF nmt_enabled
       THEN /\ thread_critical \in {0, t}
            /\ nmt_reserved' = nmt_reserved \ {vt_addr[t]}
            /\ nmt_records' = Append(nmt_records, <<"release", vt_addr[t]>>)
       ELSE UNCHANGED <<nmt_reserved, nmt_records>>
  /\ thread_critical' = IF thread_critical = t THEN 0 ELSE thread_critical
  /\ vt_pc' = [vt_pc EXCEPT ![t] = "idle"]
  /\ UNCHANGED <<nmt_enabled, pd_reserved, vt_addr, vt_held, vt_ncalls>>

(***************************************************************************)
(* os::write: the loop over pd_write.                                      *)
(***************************************************************************)
VARIABLES
  wr_pc,       \* "idle", "loop" or "done"
  wr_count,    \* the nBytes the call was made with
  wr_buf,      \* buf, as an offset from the buffer passed
  wr_nBytes,   \* nBytes, the bytes left
  wr_handed,   \* the bytes (offsets into the buffer) pd_write took, in order
  wr_failed,   \* pd_write has returned OS_ERR
  wr_tick,     \* flips with every call of pd_write
  wr_ret       \* the value returned

writeVars == <<wr_pc, wr_count, wr_buf, wr_nBytes, wr_handed, wr_failed,
               wr_tick, wr_ret>>

OS_ERR == -1

\* what pd_write may return with nBytes left: an error or a count
PdWriteResults(nBytes) == {OS_ERR} \cup 0..nBytes

\* buf = (void *)((char *)buf + res); nBytes -= res;
advance(buf, nBytes, pd_res) ==
  [buf |-> buf + pd_res, nBytes |-> nBytes - pd_res]

WriteInit ==
  /\ wr_pc = "idle"
  /\ wr_count = 0
  /\ wr_buf = 0
  /\ wr_nBytes = 0
  /\ wr_handed = <<>>
  /\ wr_failed = FALSE
  /\ wr_tick = FALSE
  /\ wr_ret = FALSE

WriteIdle == WriteInit

\* os::write(fd, buf, nBytes) is called
Write ==
  /\ wr_pc = "idle"
  /\ \E nBytes \in 0..MaxWriteBytes :
       /\ wr_count' = nBytes
       /\ wr_nBytes' = nBytes
  /\ wr_pc' = "loop"
  /\ UNCHANGED <<wr_buf, wr_handed, wr_failed, wr_tick, wr_ret>>

\* the loop test and, where it passes, one iteration
WriteStep ==
  /\ wr_pc = "loop"
  /\ IF wr_nBytes > 0
       THEN \E pd_res \in PdWriteResults(wr_nBytes) :
              /\ wr_tick' = ~wr_tick
              /\ IF pd_res = OS_ERR
                   THEN /\ wr_pc' = "done"
                        /\ wr_ret' = FALSE
                        /\ wr_failed' = TRUE
                        /\ UNCHANGED <<wr_buf, wr_nBytes, wr_handed>>
                   ELSE LET next == advance(wr_buf, wr_nBytes, pd_res)
                        IN  /\ wr_handed' =
                                 wr_handed \o
                                   [i \in 1..pd_res |-> wr_buf + i]
                            /\ wr_buf' = next.buf
                            /\ wr_nBytes' = next.nBytes
                            /\ UNCHANGED <<wr_pc, wr_ret, wr_failed>>
       ELSE /\ wr_pc' = "done"
            /\ wr_ret' = TRUE
            /\ UNCHANGED <<wr_buf, wr_nBytes, wr_handed, wr_failed, wr_tick>>
  /\ UNCHANGED wr_count

(***************************************************************************)
(* The specifications.                                                     *)
(***************************************************************************)
\* the components modelled last
lateVars == <<probeVars, prioVars, pathVars, raceVars, lockVars, writeVars>>

LateIdle == ProbeIdle /\ PrioIdle /\ PathIdle /\ RaceIdle /\ LockIdle /\ WriteIdle

restVars == <<pageVars, sigVars, vmVars, touchVars, lateVars>>

vars == <<heapVars, randVars, nextRandomVars, restVars>>

\* the parts of the layer other than the heap facade and the generator are
\* not in use
RestIdle == PageIdle /\ SigIdle /\ VmIdle /\ TouchIdle /\ LateIdle

HeapIdle ==
  /\ enabled = FALSE
  /\ debugBuild = FALSE
  /\ mallocLimit = 0
  /\ heap = [b \in Blocks |-> FALSE]
  /\ hdr = [b \in Blocks |-> NoHeader]
  /\ acct = [f \in Flags |-> NoAcct]
  /\ nfatal = 0
  /\ ub = FALSE
  /\ owned = {}
  /\ known = {}
  /\ freed = {}
  /\ tampered = FALSE
  /\ ncalls = 0
  /\ last = NoCall

Init == HeapInit /\ RandIdle /\ NextRandomIdle /\ RestIdle

Next ==
  /\ Malloc \/ Realloc \/ Free \/ Tamper
  /\ UNCHANGED <<randVars, nextRandomVars, restVars>>

Spec == Init /\ [][Next]_vars

RandomInit == HeapIdle /\ RandInit /\ NextRandomIdle /\ RestIdle

RandomNext ==
  /\ \E t \in Threads :
       RandomRead(t) \/ RandomCasReturn(t) \/ RandomCasRetry(t)
  /\ UNCHANGED <<heapVars, nextRandomVars, restVars>>

SpecRandom == RandomInit /\ [][RandomNext]_vars

\* every thread inside os::random is scheduled
SpecRandomFair ==
  /\ RandomInit
  /\ [][RandomNext]_vars
  /\ \A t \in Threads :
       WF_vars((RandomRead(t) \/ RandomCasReturn(t) \/ RandomCasRetry(t))
               /\ UNCHANGED <<heapVars, nextRandomVars, restVars>>)

NextRandomStart == HeapIdle /\ RandIdle /\ NextRandomInit /\ RestIdle

NextRandomNext ==
  /\ NextRandomCall \/ NextRandomFeed
  /\ UNCHANGED <<heapVars, randVars, restVars>>

SpecNextRandom == NextRandomStart /\ [][NextRandomNext]_vars

\* the heap facade and the generator are not in use
CoreIdle == HeapIdle /\ RandIdle /\ NextRandomIdle

coreVars == <<heapVars, randVars, nextRandomVars>>

PagesInit == CoreIdle /\ PageInit /\ SigIdle /\ VmIdle /\ TouchIdle /\ LateIdle

PagesNext ==
  /\ \/ PageAdd
     \/ PageContains
     \/ PageNextSmaller
     \/ PageNextLarger
     \/ PageLargest
     \/ PageSmallest
     \/ PageSizeForRegion
  /\ UNCHANGED <<coreVars, sigVars, vmVars, touchVars, lateVars>>

SpecPages == PagesInit /\ [][PagesNext]_vars

SignalInit == CoreIdle /\ PageIdle /\ SigInit /\ VmIdle /\ TouchIdle /\ LateIdle

SignalNext ==
  /\ \/ InitializeJdkSignalSupport
     \/ TerminateSignalThread
     \/ RaiseSignal
     \/ signal_thread_entry
     \/ ListenerInitialized
     \/ ListenerStops
  /\ UNCHANGED <<coreVars, pageVars, vmVars, touchVars, lateVars>>

SpecSignal == SignalInit /\ [][SignalNext]_vars

\* the signal thread is scheduled, and every handler it runs returns
SpecSignalFair ==
  /\ SignalInit
  /\ [][SignalNext]_vars
  /\ WF_vars(signal_thread_entry /\ UNCHANGED <<coreVars, pageVars, vmVars, touchVars, lateVars>>)

VirtualMemoryInit == CoreIdle /\ PageIdle /\ SigIdle /\ VmInit /\ TouchIdle /\ LateIdle

VirtualMemoryNext ==
  /\ \/ ReserveMemory
     \/ AttemptReserveMemoryAt
     \/ CommitMemory
     \/ CommitMemoryOrExit
     \/ UncommitMemory
     \/ ReleaseMemory
     \/ ReleaseMemorySpecial
     \/ UnmapMemory
     \/ MapMemory
     \/ RemapMemory
  /\ UNCHANGED <<coreVars, pageVars, sigVars, touchVars, lateVars>>

SpecVirtualMemory == VirtualMemoryInit /\ [][VirtualMemoryNext]_vars

PretouchInit == CoreIdle /\ PageIdle /\ SigIdle /\ VmIdle /\ TouchIdle /\ LateIdle

PretouchNext ==
  /\ PretouchMemory \/ Touch
  /\ UNCHANGED <<coreVars, pageVars, sigVars, vmVars, lateVars>>

SpecPretouch == PretouchInit /\ [][PretouchNext]_vars

\* everything modelled before the probes is not in use
EarlyIdle == CoreIdle /\ PageIdle /\ SigIdle /\ VmIdle /\ TouchIdle

earlyVars == <<coreVars, pageVars, sigVars, vmVars, touchVars>>

ProbesInit == EarlyIdle /\ ProbeInit /\ PrioIdle /\ PathIdle /\ RaceIdle /\ LockIdle /\ WriteIdle

ProbesNext ==
  /\ IsReadablePointer \/ IsReadableRange \/ RangeStep
  /\ UNCHANGED <<earlyVars, prioVars, pathVars, raceVars, lockVars, writeVars>>

SpecProbes == ProbesInit /\ [][ProbesNext]_vars

\* the loop of is_readable_range is scheduled
SpecProbesFair ==
  /\ ProbesInit
  /\ [][ProbesNext]_vars
  /\ WF_vars(RangeStep /\ UNCHANGED <<earlyVars, prioVars, pathVars, raceVars, lockVars, writeVars>>)

PriorityInit == EarlyIdle /\ ProbeIdle /\ PrioInit /\ PathIdle /\ RaceIdle /\ LockIdle /\ WriteIdle

PriorityNext ==
  /\ SetPriority \/ GetPriority
  /\ UNCHANGED <<earlyVars, probeVars, pathVars, raceVars, lockVars, writeVars>>

SpecPriority == PriorityInit /\ [][PriorityNext]_vars

SplitPathInit == EarlyIdle /\ ProbeIdle /\ PrioIdle /\ PathInit /\ RaceIdle /\ LockIdle /\ WriteIdle

SplitPathNext ==
  /\ SplitPath
  /\ UNCHANGED <<earlyVars, probeVars, prioVars, raceVars, lockVars, writeVars>>

SpecSplitPath == SplitPathInit /\ [][SplitPathNext]_vars

PretouchRaceInit == EarlyIdle /\ ProbeIdle /\ PrioIdle /\ PathIdle /\ RaceInit /\ LockIdle /\ WriteIdle

PretouchRaceNext ==
  /\ \/ RacePretouchStarts
     \/ TouchAtomic
     \/ TouchLoadLinked
     \/ TouchStoreConditional
     \/ WriterStore
  /\ UNCHANGED <<earlyVars, probeVars, prioVars, pathVars, lockVars, writeVars>>

SpecPretouchRace == PretouchRaceInit /\ [][PretouchRaceNext]_vars

ReleaseRaceInit ==
  EarlyIdle /\ ProbeIdle /\ PrioIdle /\ PathIdle /\ RaceIdle /\ LockInit /\ WriteIdle

ReleaseRaceNext ==
  /\ \E t \in VmThreads :
       \/ ReservePd(t)
       \/ ReserveRecord(t)
       \/ ReleaseStart(t)
       \/ ReleasePd(t)
       \/ ReleaseRecord(t)
  /\ UNCHANGED <<earlyVars, probeVars, prioVars, pathVars, raceVars, writeVars>>

SpecReleaseRace == ReleaseRaceInit /\ [][ReleaseRaceNext]_vars

WritesInit ==
  /\ EarlyIdle /\ ProbeIdle /\ PrioIdle /\ PathIdle /\ RaceIdle /\ LockIdle
  /\ WriteInit

WritesNext ==
  /\ Write \/ WriteStep
  /\ UNCHANGED <<earlyVars, probeVars, prioVars, pathVars, raceVars, lockVars>>

SpecWrite == WritesInit /\ [][WritesNext]_vars

\* the thread inside os::write is scheduled and every pd_write returns
SpecWriteFair ==
  /\ WritesInit
  /\ [][WritesNext]_vars
  /\ WF_vars(WriteStep /\ UNCHANGED <<earlyVars, probeVars, prioVars,
                                      pathVars, raceVars, lockVars>>)

(***************************************************************************)
(* Properties of the native heap facade.                                   *)
(***************************************************************************)
\* the step is a call of op
IsCall(op) == ncalls' = ncalls + 1 /\ last'.op = op

HeapUnchanged == heap' = heap /\ hdr' = hdr /\ acct' = acct

\* os::free(p) in state s goes through: no fatal(), no misuse of libc, and
\* the block is given back to the platform
FreeSucceeds(s, p) ==
  \A clob \in BOOLEAN :
    LET o == os_free(s, p, clob)
    IN ~o.fatal /\ ~o.ub /\ ~o.heap[p[1]] /\ Len(o.pcalls) = 1

\* p points to a tracked block that is live and whose header is intact
LiveTracked(p) ==
  /\ enabled
  /\ p \in owned
  /\ heap[p[1]]
  /\ hdr[p[1]].kind = "live"

\* C1: with tracking enabled, whenever os::realloc(p, size, flags) on a live
\* block returns null, the block is still allocated, its header is live as
\* before, the accounting is what it was, and os::free(p) then succeeds.
C1_ReallocFailureStep ==
  (/\ IsCall("realloc")
   /\ LiveTracked(last'.p)
   /\ last'.ret = Nullptr
   /\ ~last'.fatal)
  => (/\ HeapUnchanged
      /\ ~ub'
      /\ owned' = owned
      /\ hdr'[last'.p[1]].kind = "live"
      /\ FreeSucceeds(Cur', last'.p))

\* C1: every step in which os::realloc returns null on a live block leaves
\* the block live, recorded as before, and accepted by os::free.
C1_ReallocFailureKeepsBlock == [][C1_ReallocFailureStep]_vars

\* the platform realloc failed on a live tracked block and the dead mark
\* was taken back
C1_Witness ==
  /\ last.op = "realloc"
  /\ LiveTracked(last.p)
  /\ last.ret = Nullptr
  /\ ~last.fatal
  /\ Len(last.pcalls) = 1
  /\ "revive" \in last.hops

\* the records of the ledger: the user pointers of the live headers
LiveRecords == {<<b, MallocHeaderSize>> : b \in {c \in Blocks : hdr[c].kind = "live"}}

RECURSIVE SumSizes(_)
SumSizes(ps) ==
  IF ps = {} THEN 0
  ELSE LET p == CHOOSE q \in ps : TRUE
       IN hdr[p[1]].size + SumSizes(ps \ {p})

OwnedWith(f) == {p \in owned : hdr[p[1]].flags = f}

\* C2: with tracking enabled (and no header overwritten from outside) the
\* ledger has a live record for exactly the blocks handed out and not given
\* back, its accounting counts exactly those, and a block just returned by
\* malloc, at a fresh or a reused address, is recorded as requested and
\* can be freed.
C2_LedgerMatchesOwned ==
  (enabled /\ ~tampered) =>
    /\ LiveRecords = owned
    /\ \A p \in owned : heap[p[1]]
    /\ \A f \in Flags :
         acct[f] = [count |-> Cardinality(OwnedWith(f)),
                    size |-> SumSizes(OwnedWith(f))]
    /\ (last.op = "malloc" /\ last.ret # Nullptr) =>
         /\ hdr[last.ret[1]] = [kind |-> "live",
                                size |-> MAX2(1, last.size),
                                flags |-> last.flags]
         /\ FreeSucceeds(Cur, last.ret)

\* malloc, free, and a malloc that is placed at the address just freed
C2_Witness ==
  /\ enabled
  /\ last.op = "malloc"
  /\ last.reused
  /\ last.ret \in owned
  /\ hdr[last.ret[1]].kind = "live"

\* a pointer that went through os::free and whose block has not been
\* handed out again
Freed(p) ==
  /\ p \in freed
  /\ p \notin owned
  /\ ~heap[p[1]]

DoubleFreeCaught ==
  /\ last'.fatal
  /\ nfatal = 0
  /\ nfatal' = 1
  /\ last'.pcalls = <<>>
  /\ ~ub'
  /\ HeapUnchanged

\* C3 as claimed: a second os::free of the same pointer is detected,
\* whatever the tracking mode.
C3_DoubleFreeStepAnyMode ==
  (IsCall("free") /\ Freed(last'.p)) => DoubleFreeCaught

C3_DoubleFreeDetectedAnyMode == [][C3_DoubleFreeStepAnyMode]_vars

\* C3: with tracking enabled, a second os::free of the same pointer (its
\* block not handed out again) enters the fatal path once, before any
\* platform free, and the free of a live block completes normally.
C3_DoubleFreeStep ==
  /\ (IsCall("free") /\ enabled /\ Freed(last'.p)) => DoubleFreeCaught
  /\ (IsCall("free") /\ LiveTracked(last'.p)) =>
       /\ ~last'.fatal
       /\ ~ub'
       /\ nfatal' = nfatal
       /\ last'.pcalls = <<PCall("free", OuterPtr(last'.p[1]), 0, Nullptr)>>
       /\ ~heap'[last'.p[1]]
       /\ last'.p \notin owned'

\* C3 (tracking enabled): every second os::free of a freed pointer is fatal
\* exactly once and never reaches the platform free.
C3_DoubleFreeDetected == [][C3_DoubleFreeStep]_vars

\* the second free of a pointer has ended in the fatal path
C3_Witness ==
  /\ enabled
  /\ ~tampered
  /\ last.op = "free"
  /\ Freed(last.p)
  /\ last.fatal
  /\ nfatal = 1

\* the answer the platform gave in the last call (null if it was not asked)
PlatOf(l) == IF l.pcalls = <<>> THEN Nullptr ELSE l.pcalls[1].res

\* the step is what outcome o says
StepIs(o) ==
  /\ heap' = o.heap
  /\ hdr' = o.hdr
  /\ acct' = o.acct
  /\ ub' = o.ub
  /\ last'.ret = o.ret
  /\ last'.fatal = o.fatal
  /\ last'.pcalls = o.pcalls

\* C4: a zero size is a size of 1: malloc(0) does what malloc(1) does, and
\* realloc(p, 0) on a live block what realloc(p, 1) does; if the platform
\* serves the request the result is non-null, no other live block, a block
\* of 1 byte (plus overhead) recorded as such when tracking is on, and it
\* can be freed; realloc(p, 0) never frees p.
C4_ZeroSizeStep ==
  /\ (IsCall("malloc") /\ last'.size = 0) =>
       StepIs(os_malloc(Cur, 1, last'.flags, PlatOf(last')))
  /\ (IsCall("realloc") /\ last'.size = 0 /\ last'.p \in owned) =>
       \E clob \in BOOLEAN :
         StepIs(os_realloc(Cur, last'.p, 1, last'.flags, PlatOf(last'), clob))
  /\ (/\ IsCall("malloc") \/ (IsCall("realloc") /\ last'.p \in owned)
      /\ last'.size = 0
      /\ PlatOf(last') # Nullptr
      /\ ~last'.fatal /\ ~ub') =>
       /\ last'.ret # Nullptr
       /\ last'.ret \notin owned \ {last'.p}
       /\ last'.ret \in owned'
       /\ heap'[last'.ret[1]]
       /\ last'.pcalls[1].n = 1 + overhead_per_malloc
       /\ enabled => hdr'[last'.ret[1]].kind = "live"
       /\ enabled => hdr'[last'.ret[1]].size = 1
       /\ FreeSucceeds(Cur', last'.ret)
  /\ (IsCall("realloc") /\ last'.size = 0 /\ last'.p \in owned) =>
       /\ \A i \in 1..Len(last'.pcalls) : last'.pcalls[i].fn = "realloc"
       /\ Cardinality(owned') = Cardinality(owned)
       /\ (last'.ret = Nullptr /\ ~ub') =>
            (last'.p \in owned' /\ heap'[last'.p[1]])

\* C4: every os::malloc(0) and os::realloc(p, 0) behaves as the same call
\* with size 1.
C4_ZeroSizeIsOne == [][C4_ZeroSizeStep]_vars

\* realloc(p, 0) on a live block was served by the platform
C4_Witness ==
  /\ last.op = "realloc"
  /\ last.size = 0
  /\ last.p # Nullptr
  /\ last.ret # Nullptr
  /\ last.ret \in owned
  /\ enabled => hdr[last.ret[1]].size = 1

\* C5: os::malloc never aborts; when the limit is exceeded or size plus
\* overhead overflows it returns null without asking the platform, when
\* the platform returns null it returns null, and whenever it returns
\* null nothing is recorded and the ledger is unchanged.
C5_MallocRefusalStep ==
  IsCall("malloc") =>
    LET size == MAX2(1, last'.size)
    IN /\ ~last'.fatal
       /\ ~ub'
       /\ nfatal' = nfatal
       /\ (\/ check_exceeds_limit(Cur, size, last'.flags)
           \/ size + overhead_per_malloc > SizeMax) =>
            (last'.ret = Nullptr /\ last'.pcalls = <<>>)
       /\ (last'.pcalls # <<>> /\ PlatOf(last') = Nullptr) =>
            last'.ret = Nullptr
       /\ last'.ret = Nullptr =>
            (HeapUnchanged /\ owned' = owned /\ last'.hops = {})

\* C5: every os::malloc that returns null changes nothing and is not fatal.
C5_MallocRefusal == [][C5_MallocRefusalStep]_vars

\* a malloc was refused because size plus overhead overflows
C5_Witness ==
  /\ enabled
  /\ last.op = "malloc"
  /\ last.size = SizeMax
  /\ last.ret = Nullptr
  /\ last.pcalls = <<>>

\* the header of the block p points into does not pass the checks
BadHeader(p) ==
  /\ p # Nullptr
  /\ hdr[p[1]].kind \in {"corrupt", "dead"}

\* os::realloc gives up before it looks at the old header
ReallocRefusedEarly(p, size0, memflags) ==
  LET size == MAX2(1, size0)
  IN \/ size + overhead_per_malloc > SizeMax
     \/ /\ size > hdr[p[1]].size
        /\ check_exceeds_limit(Cur, size - hdr[p[1]].size, memflags)

\* C6 as claimed: every free and every realloc on a corrupted or dead
\* header ends in the fatal path.
C6_BadHeaderStepAlwaysFatal ==
  (/\ IsCall("free") \/ IsCall("realloc")
   /\ enabled
   /\ BadHeader(last'.p)) =>
    (last'.fatal /\ last'.pcalls = <<>>)

C6_BadHeaderAlwaysFatal == [][C6_BadHeaderStepAlwaysFatal]_vars

\* C6: with tracking enabled, os::free on a corrupted or dead header ends
\* in the fatal path; so does os::realloc, unless the new size overflows or
\* the growth over the size read from the (unchecked) header exceeds the
\* limit, when it returns null; neither ever returns a pointer or passes
\* the block to the platform.
C6_BadHeaderStep ==
  /\ (IsCall("free") /\ enabled /\ BadHeader(last'.p)) =>
       (last'.fatal /\ nfatal' = nfatal + 1)
  /\ (IsCall("realloc") /\ enabled /\ BadHeader(last'.p)) =>
       IF ReallocRefusedEarly(last'.p, last'.size, last'.flags)
         THEN ~last'.fatal
         ELSE last'.fatal /\ nfatal' = nfatal + 1
  /\ (/\ IsCall("free") \/ IsCall("realloc")
      /\ enabled
      /\ BadHeader(last'.p)) =>
       /\ last'.ret = Nullptr
       /\ last'.pcalls = <<>>
       /\ ~ub'
       /\ HeapUnchanged

\* C6 (as amended): every os::free or os::realloc on a block whose header is
\* corrupted or dead is fatal, or is a realloc refused before the header is
\* checked; the block never reaches the platform.
C6_BadHeaderDetected == [][C6_BadHeaderStep]_vars

\* a realloc on a block with an overwritten header ended in the fatal path
C6_Witness ==
  /\ enabled
  /\ tampered
  /\ last.op = "realloc"
  /\ last.p \in owned
  /\ hdr[last.p[1]].kind = "corrupt"
  /\ last.fatal
  /\ last.pcalls = <<>>

FlagsMismatch ==
  /\ IsCall("realloc")
  /\ LiveTracked(last'.p)
  /\ last'.flags # hdr[last'.p[1]].flags

\* C7 as claimed: realloc with other flags than recorded is fatal.
C7_FlagsMismatchStepFatal ==
  FlagsMismatch =>
    /\ last'.fatal
    /\ \A b \in Blocks : hdr'[b] = hdr[b]

C7_FlagsStep ==
  /\ (FlagsMismatch /\ debugBuild) =>
       /\ last'.ret = Nullptr
       /\ HeapUnchanged
       /\ ~ReallocRefusedEarly(last'.p, last'.size, last'.flags) =>
            (last'.fatal /\ last'.pcalls = <<>>)
  /\ (FlagsMismatch /\ ~debugBuild /\ last'.ret # Nullptr) =>
       /\ hdr'[last'.ret[1]].flags = last'.flags
       /\ hdr'[last'.ret[1]].kind = "live"
  /\ (/\ IsCall("realloc")
      /\ LiveTracked(last'.p)
      /\ last'.flags = hdr[last'.p[1]].flags
      /\ last'.ret # Nullptr) =>
       /\ hdr'[last'.ret[1]].flags = hdr[last'.p[1]].flags
       /\ hdr'[last'.ret[1]].kind = "live"

C8_DisabledIsPassThrough ==
  ~enabled =>
    /\ \A b \in Blocks : hdr[b] = NoHeader
    /\ \A f \in Flags : acct[f] = NoAcct
    /\ nfatal = 0
    /\ ~last.fatal
    /\ last.hops = {}
    /\ (last.op = "malloc" \/ (last.op = "realloc" /\ last.p = Nullptr)) =>
         /\ last.pcalls = <<PCall("malloc", Nullptr, MAX2(1, last.size),
                                  last.ret)>>
    /\ (last.op = "realloc" /\ last.p # Nullptr) =>
         /\ Len(last.pcalls) = 1
         /\ last.pcalls[1].fn = "realloc"
         /\ last.pcalls[1].ptr = last.p
         /\ last.pcalls[1].n = MAX2(1, last.size)
         /\ ~ub => last.pcalls[1].res = last.ret
    /\ (last.op = "free" /\ last.p # Nullptr) =>
         last.pcalls = <<PCall("free", last.p, 0, Nullptr)>>
    /\ (last.op = "free" /\ last.p = Nullptr) => last.pcalls = <<>>

\* an untracked realloc of the largest size was served by the platform
C8_Witness ==
  /\ ~enabled
  /\ last.op = "realloc"
  /\ last.p # Nullptr
  /\ last.size = SizeMax
  /\ last.ret # Nullptr
  /\ last.ret # last.p

(***************************************************************************)
(* Properties of the random number generator.                              *)
(***************************************************************************)
RECURSIVE NextRandomTimes(_, _)
NextRandomTimes(s, k) ==
  IF k = 0 THEN s ELSE next_random(NextRandomTimes(s, k - 1))

\* C9: under every interleaving of the threads' calls of os::random the
\* k-th value handed out is next_random applied k times to the initial
\* seed, the values handed out are pairwise distinct, the shared seed is
\* next_random applied to the initial seed once per completed call, and
\* when all have finished NumThreads * CallsPerThread values are out.
C9_RandomIsSerialized ==
  /\ rand_seed = NextRandomTimes(seed0, Len(returned))
  /\ \A i \in 1..Len(returned) :
       returned[i].value = NextRandomTimes(seed0, i)
  /\ \A i, j \in 1..Len(returned) :
       i # j => returned[i].value # returned[j].value
  /\ \A t \in Threads :
       tcalls[t] = Cardinality({i \in 1..Len(returned) : returned[i].thread = t})
  /\ (\A t \in Threads : tcalls[t] = CallsPerThread) =>
       Len(returned) = NumThreads * CallsPerThread

\* all calls are through, and some of them had to go round the loop
C9_Witness ==
  /\ \A t \in Threads : tcalls[t] = CallsPerThread
  /\ Len(returned) = NumThreads * CallsPerThread
  /\ retries > 1

\* (x + y) mod m and (k * x) mod m, without leaving 0..m-1 on the way
AddMod(x, y, m) == IF x >= m - y THEN x - (m - y) ELSE x + y

RECURSIVE MulMod(_, _, _)
MulMod(k, x, m) ==
  IF k = 0 THEN 0
  ELSE LET h == MulMod(k \div 2, x, m)
           d == AddMod(h, h, m)
       IN IF k % 2 = 1 THEN AddMod(d, x % m, m) ELSE d

\* C10: for a seed in 1..2^31-2 the result of next_random is
\* (16807 * seed) mod (2^31 - 1), lies in 1..2^31-2 again, and the two
\* products it is computed from fit in 32 bits.
C10_NextRandomIsLehmer ==
  (res # -1 /\ arg \in 1..(rand_m - 1)) =>
    /\ res = MulMod(rand_a, arg, rand_m)
    /\ res \in 1..(rand_m - 1)
    /\ rand_lo(arg) \in 0..rand_m
    /\ rand_hi(arg) \in 0..rand_m

\* next_random was called on a seed for which both sums overflow 2^31-1
C10_Witness ==
  /\ res # -1
  /\ arg \in 1..(rand_m - 1)
  /\ U32Add(rand_lo(arg), (rand_hi(arg) % 32768) * 65536).top = 1
  /\ res = MulMod(rand_a, arg, rand_m)

(***************************************************************************)
(* Properties of the page size registry.                                   *)
(***************************************************************************)
\* the least element of S above p, the greatest below p, 0 if there is none
LeastAbove(S, p) ==
  IF \E s \in S : s > p
  THEN CHOOSE s \in S : s > p /\ \A u \in S : u > p => s <= u
  ELSE 0

GreatestBelow(S, p) ==
  IF \E s \in S : s < p
  THEN CHOOSE s \in S : s < p /\ \A u \in S : u < p => u <= s
  ELSE 0

\* the mask holds exactly the sizes added
MaskIsRegistered ==
  registered = {p \in PowersOfTwo : BitAnd(page_sizes, p) # 0}

\* C11: for every set of sizes built by add and every power of two p,
\* next_larger(p) is the least registered size above p or 0 (also for the
\* largest power of two), next_smaller(p) is the greatest registered size
\* below p or 0, and contains(p) tells whether p was added.
C11_NextLargerSmallerContains ==
  /\ MaskIsRegistered
  /\ pq.op = "next_larger" => pq.ret = LeastAbove(registered, pq.p)
  /\ pq.op = "next_smaller" => pq.ret = GreatestBelow(registered, pq.p)
  /\ pq.op = "contains" => (pq.ret = 1 <=> pq.p \in registered)

\* next_larger was asked of a set with sizes below, at and above the size,
\* and answered the next size, skipping none
C11_Witness ==
  /\ pq.op = "next_larger"
  /\ registered = {2, 4, 16}
  /\ pq.p = 2
  /\ pq.ret = 4

\* C12 (as stated): largest() is the maximum and smallest() the minimum of
\* the registered sizes 2^k, k from 0 up, and both are 0 exactly when no
\* size is registered.
C12_LargestSmallest ==
  /\ pq.op = "largest" =>
       pq.ret = GreatestBelow(registered, PageMod)
  /\ pq.op = "smallest" =>
       pq.ret = LeastAbove(registered, 0)

\* C13 (as stated): page_size_for_region returns the largest registered
\* size that fits region_size / min_pages (and divides region_size when
\* alignment is asked for), and the base page size only when none does.
Qualifies(ps, q) ==
  /\ ps \in registered
  /\ ps <= q.region \div q.min_pages
  /\ q.aligned => q.region % ps = 0

BestQualifying(q) ==
  IF \E ps \in registered : Qualifies(ps, q)
  THEN CHOOSE ps \in registered :
         Qualifies(ps, q) /\ \A u \in registered : Qualifies(u, q) => u <= ps
  ELSE vm_page_size

C13_PageSizeForRegionAnyMode ==
  pq.op = "page_size_for_region" => pq.ret = BestQualifying(pq)

\* C13 (as amended): the above holds when UseLargePages is on; when it is
\* off the result is the base page size whatever is registered.
C13_PageSizeForRegion ==
  pq.op = "page_size_for_region" =>
    pq.ret = IF UseLargePages THEN BestQualifying(pq) ELSE vm_page_size

\* the largest size is too large for min_pages, the next one fits and divides
\* the region
C13_Witness ==
  /\ pq.op = "page_size_for_region"
  /\ UseLargePages
  /\ registered = {1, 2, 16}
  /\ vm_page_size = 1
  /\ pq.region = 16 /\ pq.min_pages = 3 /\ pq.aligned
  /\ pq.ret = 2

(***************************************************************************)
(* Properties of the signal dispatch thread.                               *)
(***************************************************************************)
RangeOf(seq) == {seq[i] : i \in 1..Len(seq)}

\* a step after which the thread is in its loop, without a pending
\* exception when it waits, and that ends the thread only at the exit signal
C14_DispatchLoopStep ==
  /\ (sigpc' = "terminated" /\ sigpc # "terminated") =>
       (sigpc = "dispatch" /\ sig = sigexitnum_pd)
  /\ (sigpc \in DISPATCHING /\ sig # sigexitnum_pd) =>
       sigpc' \in (WAITING \cup DISPATCHING)
  /\ sigpc \in WAITING =>
       (sigpc' \in WAITING \/ (sigpc' = "dispatch" /\ pending_signals[sig'] =
                                                      pending_signals'[sig'] + 1))
  /\ sigpc' \in WAITING => ~pending_exception'
  /\ sigpc = "upcall_done" => (sigpc' = sigpc \/ sigpc' \in WAITING)

\* C14: the signal thread leaves its loop only when signal_wait returned the
\* exit signal; for every other signal, also when the upcall left a pending
\* exception, the exception is cleared and the thread goes back to waiting
\* without a pending exception.
C14_OnlyExitSignalEndsLoop == [][C14_DispatchLoopStep]_vars

\* an upcall left an exception, with and without tty, and the thread waits
\* again after several signals
C14_Witness ==
  /\ sigpc \in WAITING
  /\ Len(dispatched) = MaxSignals
  /\ SIGUSER \in RangeOf(dispatched)
  /\ warnings = 1
  /\ ~pending_exception
  /\ ~terminate_called

\* C15: with signal support enabled the signal thread terminates once
\* os::terminate_signal_thread has been called, given that the thread is
\* scheduled and its handlers return; the exit signal reaches no handler;
\* with ReduceSignalUsage there is no thread and no notification is sent.
C15_TerminateEndsSignalThread ==
  /\ [](sigexitnum_pd \notin RangeOf(dispatched))
  /\ [](ReduceSignalUsage =>
          /\ sigpc = "none"
          /\ notified = 0
          /\ \A s \in Signals : pending_signals[s] = 0)
  /\ [](~ReduceSignalUsage => (notified = IF terminate_called THEN 1 ELSE 0))
  /\ ((terminate_called /\ ~ReduceSignalUsage) ~> (sigpc = "terminated"))

\* the thread has ended after the shutdown call, having run handlers before
C15_Witness ==
  /\ terminate_called
  /\ ~ReduceSignalUsage
  /\ sigpc = "terminated"
  /\ Len(dispatched) > 0
  /\ notified = 1

\* the threads that are initialising the attach listener
Initializers ==
  (IF sigpc = "attach_init" THEN {"signal thread"} ELSE {}) \cup
  (IF listener = "initializing" THEN {"attach listener"} ELSE {})

C16_AttachStep ==
  /\ (sigpc' = "attach_init" /\ sigpc # "attach_init") =>
       /\ sig = SIGBREAK /\ ~DisableAttachMechanism
       /\ attach_state = AL_NOT_INITIALIZED
       /\ attach_state' = AL_INITIALIZING
  /\ (/\ sigpc = "dispatch" /\ sig = SIGBREAK /\ ~DisableAttachMechanism
      /\ attach_state = AL_INITIALIZING
      /\ sigpc' # sigpc) =>
       /\ sigpc' = "waiting"
       /\ UNCHANGED <<attach_state, listener>>
  /\ Cardinality(Initializers') <= 1
  /\ Initializers' # {} => attach_state' = AL_INITIALIZING

\* C16: the signal thread calls is_init_trigger only after its own
\* transition NOT_INITIALIZED -> INITIALIZING succeeded, ignores the signal
\* when it finds INITIALIZING, and at most one initializer is under way.
C16_OneAttachInitializer == [][C16_AttachStep]_vars

\* a diagnostic signal was ignored while the listener was initialising
C16_Witness ==
  /\ ignored > 0
  /\ listener = "initializing"
  /\ attach_state = AL_INITIALIZING
  /\ sigpc \in WAITING

(***************************************************************************)
(* Properties of the virtual memory manager.                               *)
(***************************************************************************)
\* the operations named by the claim on the ledger
LedgerOps == {"reserve_memory", "attempt_reserve_memory_at", "commit_memory",
              "uncommit_memory", "release_memory", "release_memory_special",
              "map_memory", "unmap_memory"}

\* the step is a call of an operation of ops
VmCallOf(ops) == nvmcalls' = nvmcalls + 1 /\ vmcall'.op \in ops

\* the call notified the ledger once if the platform reported success and
\* left it as it was if not
NotifiedIffSuccess ==
  vm_ledger' = IF vmcall'.pd_ok
               THEN Append(vm_ledger, pd_done'[Len(pd_done')])
               ELSE vm_ledger

\* C17 (as stated): every call of a virtual memory operation notifies the
\* ledger exactly once if and only if the platform primitive succeeded, so
\* that the ledger's events are the successful platform operations.
C17_LedgerStepAnyMode ==
  /\ VmCallOf(LedgerOps) => NotifiedIffSuccess
  /\ vm_ledger' = pd_done'

C17_LedgerIsSuccessfulOpsAnyMode == [][C17_LedgerStepAnyMode]_vars

C17_LedgerStep ==
  /\ (tracking /\ VmCallOf(LedgerOps)) => NotifiedIffSuccess
  /\ tracking => vm_ledger' = pd_done'
  /\ ~tracking => vm_ledger' = <<>>

\* C17 (as amended): with tracking enabled every call notifies the ledger
\* once if and only if the platform primitive succeeded and the ledger's
\* events are the successful platform operations; with tracking disabled
\* the ledger records nothing.
C17_LedgerIsSuccessfulOps == [][C17_LedgerStep]_vars

\* a failed and a successful call have been made, the ledger holds the one
\* event of the successful call
C17_Witness ==
  /\ tracking
  /\ nvmcalls = 2
  /\ Len(vm_ledger) = 1
  /\ vm_ledger[1].kind = "release"
  /\ vmcall.op = "commit_memory"
  /\ ~vmcall.pd_ok

\* the reservation and commit operations
ReserveCommitOps == {"reserve_memory", "attempt_reserve_memory_at",
                     "commit_memory", "commit_memory_or_exit"}

\* the call emitted a log event that carries the platform error code
LoggedErrno ==
  /\ Len(vm_log') = Len(vm_log) + 1
  /\ vm_log'[Len(vm_log')].errno

C18_FailureStep ==
  (VmCallOf(ReserveCommitOps) /\ ~vmcall'.pd_ok) =>
    /\ vmcall'.ret = 0
    /\ LoggedErrno
    /\ ~vm_exited'

\* C18: every reservation or commit operation that fails at the platform
\* returns null/false, emits a log event with the platform error code and
\* does not end the process.
C18_FailureReturnsAndLogs == [][C18_FailureStep]_vars

(***************************************************************************)
(* Properties of os::pretouch_memory.                                      *)
(***************************************************************************)
\* the pages of the given size that overlap [pt_start, pt_end), by their
\* first address
PagesOverlapping(size) ==
  {a \in Addresses : a % size = 0 /\ a + size > pt_start /\ a < pt_end}

\* how often the page of the given size at a was touched
TimesTouched(a, size) ==
  Cardinality({i \in 1..Len(touched) :
                 touched[i] >= a /\ touched[i] < a + size})

C20_PretouchStaysBelowEnd ==
  \A i \in 1..Len(touched) : touched[i] < pt_end

\* the range ends inside a page, the hook answered a smaller page size, and
\* the last touch is in the page that holds end - 1
C20_Witness ==
  /\ pt_pc = "done"
  /\ pt_end % pt_page_size # 0
  /\ pd_page_size > 0 /\ pd_page_size < pt_page_size
  /\ Len(touched) > 1
  /\ touched[Len(touched)] = align_down(pt_end - 1, pd_page_size)

(***************************************************************************)
(* Properties of the readable-memory probes.                               *)
(***************************************************************************)
\* the word a pointer is probed at
probed_word(p) == align_down(p, 4)

range_pages(from, to) ==
  {a \in ProbeAddresses :
     a % min_page_size = 0 /\ a >= align_down(from, min_page_size) /\ a < to}

\* C25: os::is_readable_range(from, to) returns false whenever from >= to;
\* otherwise it probes at align_down(from, min_page_size) and at every
\* following page step below to, returns false at the first unreadable probe
\* and true iff all these probes are readable.
C25_RangeProbeSamplesItsPages ==
  (pr_pc = "done" /\ pr_op = "is_readable_range") =>
     IF pr_from >= pr_to
       THEN pr_ret = FALSE /\ pr_probed = {}
       ELSE /\ pr_probed \subseteq range_pages(pr_from, pr_to)
            /\ pr_ret = (\A a \in range_pages(pr_from, pr_to) :
                           mem_readable[page_of(a)])
            /\ pr_ret => pr_probed = range_pages(pr_from, pr_to)
            /\ ~pr_ret =>
                 \E a \in pr_probed :
                    /\ ~mem_readable[page_of(a)]
                    /\ \A b \in pr_probed : b <= a

\* every call of is_readable_range returns (checked under SpecProbesFair)
RangeProbeReturns ==
  (pr_pc = "loop") ~> (pr_pc = "done")

(***************************************************************************)
(* Properties of the thread priorities.                                    *)
(***************************************************************************)
\* the highest level whose native value is that of level p
highest_equal(p) ==
  CHOOSE q \in PriorityLevels :
    /\ java_to_os_priority[q] = java_to_os_priority[p]
    /\ \A r \in PriorityLevels :
         java_to_os_priority[r] = java_to_os_priority[p] => r <= q

strictly_monotonic(table) ==
  \A p, q \in PriorityLevels : p # q => table[p] # table[q]

\* C22: for a monotonic table, get_priority after a successful
\* set_priority(thread, p) with p in MinPriority..MaxPriority yields the
\* highest level whose native value equals that of p (p itself when the table
\* is strictly monotonic); the level stored is always within
\* MinPriority..MaxPriority; when get_native_priority fails, get_priority
\* returns the error and leaves the output as it was.
C22_GetPriorityInvertsSetPriority ==
  prio_op = "get_priority" =>
     /\ prio_ret = "OS_ERR" => priority = prio_before
     /\ prio_ret = "OS_OK" =>
          /\ priority \in PriorityLevels
          /\ prio_set \in PriorityLevels =>
               /\ priority = highest_equal(prio_set)
               /\ strictly_monotonic(java_to_os_priority) =>
                    priority = prio_set

C22_Witness ==
  /\ prio_op = "get_priority"
  /\ prio_ret = "OS_OK"
  /\ prio_set \in PriorityLevels
  /\ java_to_os_priority[MaxPriority] < java_to_os_priority[MinPriority]
  /\ priority > prio_set
  /\ priority < MaxPriority
  /\ priority # prio_before

(***************************************************************************)
(* Properties of os::split_path.                                           *)
(***************************************************************************)
separators_in(s) == Cardinality({i \in 1..Len(s) : s[i] = path_separator})

RECURSIVE join(_)
join(strings) ==
  IF Len(strings) = 0 THEN <<>>
  ELSE IF Len(strings) = 1 THEN strings[1]
  ELSE strings[1] \o <<path_separator>> \o join(Tail(strings))

\* some stretch of n characters of s holds no separator
has_segment_of(s, n) ==
  \E i \in 1..(Len(s) + 1) :
     /\ i + n - 1 <= Len(s)
     /\ \A j \in i..(i + n - 1) : s[j] # path_separator

\* the longest segment of s, with file_name_length appended, is too long
exceeds_max_path(s, file_name_length) ==
  \E n \in 0..Len(s) :
     has_segment_of(s, n) /\ n + file_name_length > JVM_MAXPATHLEN

\* C23: for a non-empty path and file_name_length > 0, split_path returns
\* (number of separators) + 1 substrings, in order, none holding the
\* separator, whose join with the separator is the path (empty segments are
\* kept); if a segment's length plus file_name_length exceeds the maximum path
\* length, it ends the process instead of returning an array.
C23_SplitPathKeepsEverySegment ==
  (sp_pc = "done" /\ sp_path # nullptr /\ Len(sp_path) > 0 /\ sp_fnl > 0) =>
     IF exceeds_max_path(sp_path, sp_fnl)
       THEN sp_exited /\ sp_ret = no_array
       ELSE /\ ~sp_exited
            /\ sp_ret # no_array
            /\ Len(sp_ret) = separators_in(sp_path) + 1
            /\ sp_elements = Len(sp_ret)
            /\ \A i \in 1..Len(sp_ret) : separators_in(sp_ret[i]) = 0
            /\ join(sp_ret) = sp_path

C23_Witness ==
  /\ sp_pc = "done"
  /\ ~sp_exited
  /\ sp_path = <<"a", path_separator, path_separator, "b">>
  /\ sp_ret = << <<"a">>, <<>>, <<"b">> >>

\* a path with a segment that leaves no room for the file name ends the process
C23_WitnessExit ==
  /\ sp_pc = "done"
  /\ sp_exited
  /\ Len(sp_path) = 3
  /\ sp_path[1] = path_separator
  /\ sp_fnl = JVM_MAXPATHLEN - 1

(***************************************************************************)
(* Properties of the SIGBREAK case of the signal thread.                   *)
(***************************************************************************)
\* the dumps of one SIGBREAK, in the order of the code
dump_order(class_histogram, data_dump) ==
  <<"VM_PrintThreads", "VM_FindDeadlocks", "print_heap_at_SIGBREAK">>
    \o (IF class_histogram THEN <<"VM_GC_HeapInspection">> ELSE <<>>)
    \o (IF data_dump THEN <<"post_data_dump">> ELSE <<>>)

is_prefix(s, t) == Len(s) <= Len(t) /\ s = SubSeq(t, 1, Len(s))

\* negotiations after which the signal is consumed / the dumps are made
CONSUMED == {"initializing", "triggered", "restarted"}
DUMPED == {"disabled", "start_failed", "socket_file_there"}

\* the dumps made so far are the first ones of the order, they are made only
\* after the negotiation, and the handler ends with all of them made
sigbreak_dumps_in_order ==
  /\ \E data_dump \in BOOLEAN :
       is_prefix(dumps, dump_order(PrintClassHistogram, data_dump))
  /\ dumps # <<>> => negotiation \in DUMPED
  /\ sigpc \in DUMPING => negotiation \in DUMPED
  /\ (sigpc = "waiting" /\ negotiation \in DUMPED) =>
        \E data_dump \in BOOLEAN :
           dumps = dump_order(PrintClassHistogram, data_dump)

\* a SIGBREAK taken with the attach mechanism disabled
sigbreak_taken_attach_disabled ==
  sigpc = "dispatch" /\ sig = SIGBREAK /\ DisableAttachMechanism

stack_dump_made ==
  /\ negotiation = "disabled"
  /\ Len(dumps) > 0
  /\ dumps[1] = "VM_PrintThreads"

\* C24: for every SIGBREAK the handler first does the attach negotiation and
\* then, in this order, the stack dump, the deadlock detection, the heap
\* print, the class histogram (only if PrintClassHistogram) and the data-dump
\* post (only if requested); no later step runs before an earlier one, and
\* with the attach mechanism disabled every SIGBREAK produces the stack dump.
C24_SigbreakDumpsInOrder ==
  /\ []sigbreak_dumps_in_order
  /\ sigbreak_taken_attach_disabled ~> stack_dump_made

C24_Witness ==
  /\ sigpc = "waiting"
  /\ negotiation = "socket_file_there"
  /\ dumps = dump_order(TRUE, TRUE)

\* C28: the signal thread never leaves the attach state at INITIALIZING after
\* a failed start: having won NOT_INITIALIZED -> INITIALIZING and
\* is_init_trigger() answering false, it sets the state back to
\* NOT_INITIALIZED before anything else and goes on to the stack dump, so a
\* later SIGBREAK can try again; when is_init_trigger() answers true, or the
\* state was INITIALIZING, or it was INITIALIZED and check_socket_file()
\* answers true, the signal is consumed without any stack dump.
C28_FailedStartResetsAttachState ==
  /\ negotiation = "start_failed" =>
       /\ attach_state = AL_NOT_INITIALIZED
       /\ sigpc \in DUMPING \/ (sigpc = "waiting" /\ Len(dumps) >= 3)
  /\ negotiation = "won" => (sigpc = "attach_init" /\ dumps = <<>>)
  /\ negotiation \in CONSUMED => (sigpc = "waiting" /\ dumps = <<>>)

C28_Witness ==
  /\ negotiation = "start_failed"
  /\ attach_state = AL_NOT_INITIALIZED
  /\ sigpc = "find_deadlocks"
  /\ Len(dispatched) >= 2

(***************************************************************************)
(* Properties of a pretouch racing with stores.                            *)
(***************************************************************************)
\* C26: racing os::pretouch_memory with writers of the same range never loses
\* or alters data: under every interleaving of the add-zero steps with the
\* other threads' stores, the memory holds what it would hold had pretouch
\* not run, that is, the values the other threads stored last.
C26_PretouchKeepsStores ==
  race_mem = race_stored

C26_Witness ==
  /\ race_pc = "done"
  /\ race_impl = "llsc"
  /\ race_nstores = MaxStores
  /\ race_mem[1] = 2
  /\ race_mem[RacePages] = 1

(***************************************************************************)
(* Properties of concurrent release and reserve.                           *)
(***************************************************************************)
\* the kinds of the records made for region a, in order
RECURSIVE records_of(_, _)
records_of(records, a) ==
  IF records = <<>> THEN <<>>
  ELSE IF Head(records)[2] = a
         THEN <<Head(records)[1]>> \o records_of(Tail(records), a)
         ELSE records_of(Tail(records), a)

\* reserve, release, reserve, ...
alternates(kinds) ==
  \A i \in 1..Len(kinds) :
     kinds[i] = IF i % 2 = 1 THEN "reserve" ELSE "release"

\* C27: with tracking enabled, os::release_memory holds the tracker's
\* critical section from before the platform call until after the record, so
\* under every interleaving with a concurrent os::reserve_memory that is
\* handed the released range the release is recorded before the new
\* reservation; when all calls have returned, the regions the ledger holds as
\* reserved are the regions reserved at the platform.
C27_ReleaseRecordedBeforeReuse ==
  nmt_enabled =>
     /\ \A t \in VmThreads :
          vt_pc[t] \in {"releasing", "released"} => thread_critical = t
     /\ \A a \in VmRegions : alternates(records_of(nmt_records, a))
     /\ (\A t \in VmThreads : vt_pc[t] = "idle") => nmt_reserved = pd_reserved

\* a region released by one thread, handed to the other while the release
\* was not yet recorded, and both calls returned
C27_Witness ==
  /\ nmt_enabled
  /\ \A t \in VmThreads : vt_pc[t] = "idle"
  /\ \E a \in VmRegions :
       /\ records_of(nmt_records, a) = <<"reserve", "release", "reserve">>
       /\ a \in vt_held[2]
       /\ nmt_reserved = {a}

\* the other thread has the released region in hand before the release is
\* recorded
C27_WitnessRace ==
  /\ nmt_enabled
  /\ vt_pc[1] = "released"
  /\ vt_pc[2] = "reserved"
  /\ vt_addr[1] = vt_addr[2]

(***************************************************************************)
(* Progress of os::random.                                                 *)
(***************************************************************************)
\* a step of thread t that sends it round the loop again
goes_round(t) == tpc[t] = "cas" /\ tpc'[t] = "read" /\ tcalls'[t] = tcalls[t]

\* another thread's cmpxchg has succeeded since the read of thread t
updated_by_another_since_read(t) ==
  /\ Len(returned) > tread[t]
  /\ \A i \in (tread[t] + 1)..Len(returned) : returned[i].thread # t

\* a call whose read no update has followed completes with its next step,
\* and every loop gone round is paid for by a call of another thread that
\* has returned
random_is_lock_free ==
  /\ \A t \in Threads :
        (tpc[t] = "cas" /\ Len(returned) = tread[t]) => cmpxchg_succeeds(t)
  /\ retries <= Len(returned) * (NumThreads - 1)

all_calls_returned == \A t \in Threads : tcalls[t] = CallsPerThread

\* C29: os::random is lock-free and terminates: a call goes round its
\* read-compute-CAS loop only if another thread's CAS on the seed succeeded
\* between its read and its own CAS, so at every step some pending call can
\* complete, and with finitely many calls from finitely many threads every
\* call returns under fair scheduling.
C29_RandomIsLockFreeAndReturns ==
  /\ [][\A t \in Threads : goes_round(t) => updated_by_another_since_read(t)]_vars
  /\ []random_is_lock_free
  /\ <>all_calls_returned

C29_Witness ==
  /\ all_calls_returned
  /\ retries = CallsPerThread
  /\ returned[1].thread = 1
  /\ returned[2].thread = 1

(***************************************************************************)
(* Properties of os::write.                                                *)
(***************************************************************************)
\* the bytes taken so far are the first bytes of the buffer, in order, each
\* once; true is returned only with all of them taken, false only after an
\* error, and nothing is written after an error
write_hands_bytes_in_order ==
  /\ wr_handed = [i \in 1..Len(wr_handed) |-> i]
  /\ Len(wr_handed) = wr_buf
  /\ wr_pc # "idle" => wr_buf + wr_nBytes = wr_count
  /\ (wr_pc = "done" /\ wr_ret) => (Len(wr_handed) = wr_count /\ ~wr_failed)
  /\ (wr_pc = "done" /\ ~wr_ret) => wr_failed
  /\ wr_failed => wr_pc = "done"

\* C30: os::write resumes after partial writes at the right offset: it
\* returns true only after the nBytes bytes of buf have been handed to
\* pd_write in order with no byte skipped or repeated, returns false at the
\* first pd_write error without writing anything further, and terminates for
\* every sequence of pd_write results (each an error or a count between 0 and
\* the remaining length).
C30_WriteHandsAllBytesAndReturns ==
  /\ []write_hands_bytes_in_order
  /\ (wr_pc = "loop") ~> (wr_pc = "done")

====
